---- MODULE Spec2Model ----
(***************************************************************************)
(* fastapi_solo: the nested-transaction protocol of                        *)
(* fastapi_solo/db/database.py (Transaction, get_raw_session,              *)
(* get_root_transaction, get_db) over an ORM session, during one request.  *)
(*                                                                         *)
(* The session is the stack of its open transactions (the root first, the  *)
(* savepoints above it); session._transaction is the top of the stack.     *)
(* Every transaction of the stack carries the rows flushed under it and    *)
(* not yet released to its parent; `committed` holds the durable rows.     *)
(* The Transaction scopes of the running code (Python `with` blocks, which *)
(* nest lexically) form a second stack, `scopes`.                          *)
(***************************************************************************)
EXTENDS Integers, Sequences, FiniteSets, TLC

\* Bounds of the model.
MaxDepth == 2      \* Transaction scopes open at the same time
MaxRows == 2       \* rows written during one session

Rows == 1..MaxRows

NoExc       == "none"
AppExc      == "RollbackException"      \* raised by the body of a scope
Http500     == "HTTPException(500)"     \* raised by Transaction._begin
ClosedExc   == "ResourceClosedError"    \* commit()/rollback() on a closed handle

VARIABLES
    allowNesting,  \* Transaction._allow_nesting_root_router_transaction
    phase,         \* "new", "session", "run", "done" (root scope exited), "closed"
    txStack,       \* the session's open transactions, root first: the rows of each
    committed,     \* durable rows
    scopes,        \* the open Transaction scopes, outermost first
    exc,           \* the exception propagating in the running code
    nextRow,       \* next row to write
    last,          \* the last operation and what it did
    call,          \* a call of a library function: the function and its arguments
    result,        \* the outcome of that call
    schema_cache,  \* schema_models.__schema_cache: name -> compiled schema
    compiled,      \* the number of schemas compiled (create_model calls)
    default_relationships,  \* the dict bound as default of response_schema's
                            \* `relationships` parameter
    log,           \* the schema-generation calls made and what they returned
    threads,       \* the threads inside _generate_schema
    posts_table,   \* the rows of the posts table the session's queries see
    session_new,   \* the objects added to the session and not flushed yet
    overrides,     \* the overrides dict each injector-wrapped function was made with
    events,        \* what the calls of the wrapped functions did, in order
    suspended,     \* the generators a call that raised left suspended
    raised         \* the exception on its way to the caller of a wrapped function

\* The variables of the transaction protocol and those of the library calls.
txVars == <<allowNesting, phase, txStack, committed, scopes, exc,
            nextRow, last>>
schemaVars == <<schema_cache, compiled, default_relationships, log, threads>>
dataVars == <<posts_table, session_new>>
injectVars == <<overrides, events, suspended, raised>>
libVars == <<call, result, schemaVars, dataVars, injectVars>>

vars == <<allowNesting, phase, txStack, committed, scopes, exc,
          nextRow, last, call, result,
          schema_cache, compiled, default_relationships, log, threads,
          posts_table, session_new, overrides, events, suspended, raised>>

\* No library call is being made.
NoCall == [fn |-> "none"]
NoResult == [status |-> "none"]

\* Schema generation at import: the cache is empty, the default dict is {},
\* nothing was generated and no thread is generating.
SchemaIdle ==
    /\ schema_cache = <<>>
    /\ compiled = 0
    /\ default_relationships = [form |-> "dict", s |-> "", items |-> <<>>]
    /\ log = <<>>
    /\ threads = <<>>

\* No row, no pending object; no wrapped function was made or called.
DataIdle ==
    /\ posts_table = {}
    /\ session_new = <<>>
    /\ overrides = <<>>
    /\ events = <<>>
    /\ suspended = <<>>
    /\ raised = "none"

----------------------------------------------------------------------------
\* The ORM session (the collaborator behind self.db and self.tx).
\*
\* A transaction handle is the position of its transaction in the session's
\* stack while the transaction is open, and NoTx once it is closed: two
\* scopes hold the same open transaction iff they hold the same position.

NoTx == 0

\* Rows a query on the session sees: the durable rows and every row flushed
\* under an open transaction of the session.
Visible(st, com) == com \cup UNION {st[i] : i \in 1..Len(st)}

\* Session.in_transaction()
in_transaction(st) == Len(st) > 0

\* Session._transaction: the innermost open transaction (NoTx if none).
CurrentTx(st) == Len(st)

\* SessionTransaction.nested: every transaction above the root is a savepoint.
IsNested(h) == h > 1

\* SessionTransaction.is_active
is_active(st, h) == h # NoTx /\ h <= Len(st)

RowsFrom(st, p) == UNION {st[i] : i \in p..Len(st)}

\* Session.begin(): a new root transaction.
begin(st) == <<{}>>

\* Session.begin_nested(): a savepoint above the current transaction.
begin_nested(st) == Append(st, {})

\* SessionTransaction.commit(): the transactions above the handle are
\* committed first; a savepoint releases its rows to its parent, the root
\* makes them durable.  The handle and everything above it are closed.
commit(st, com, h) ==
    IF h = 1
    THEN [st |-> <<>>, com |-> com \cup RowsFrom(st, 1)]
    ELSE [st |-> [SubSeq(st, 1, h - 1) EXCEPT ![h - 1] = @ \cup RowsFrom(st, h)],
          com |-> com]

\* SessionTransaction.rollback(): the handle and everything above it are
\* closed and their rows discarded.
rollback(st, com, h) ==
    [st |-> SubSeq(st, 1, h - 1), com |-> com]

\* A flush of one new row: it is written under the innermost transaction;
\* a session with no transaction begins one by itself (autobegin).
flush(st, r) ==
    IF Len(st) = 0
    THEN <<{r}>>
    ELSE [st EXCEPT ![Len(st)] = @ \cup {r}]

\* The handles the scopes hold once the session's stack has shrunk to n:
\* the handles of the closed transactions are closed.
CloseAbove(sc, n) ==
    [i \in 1..Len(sc) |-> [sc[i] EXCEPT !.tx = IF @ > n THEN NoTx ELSE @]]

----------------------------------------------------------------------------
\* Transaction (fastapi_solo/db/database.py)

\* Transaction.__init__
__init__(nested) ==
    [tx |-> NoTx, nested |-> nested, force |-> FALSE, cat |-> "NONE", since |-> 0]

\* _begin without the check of the current transaction's nested flag.
BeginJoinsSavepoint(st, nested) ==
    IF in_transaction(st)
    THEN IF nested
         THEN [err |-> NoExc, tx |-> Len(st) + 1, cat |-> "NESTED", st |-> begin_nested(st)]
         ELSE [err |-> NoExc, tx |-> CurrentTx(st), cat |-> "REUSED", st |-> st]
    ELSE [err |-> NoExc, tx |-> 1, cat |-> "ROOT", st |-> begin(st)]

\* _begin that begins a new root transaction instead of joining the current one.
BeginNeverJoins(st, nested) ==
    IF in_transaction(st)
    THEN IF nested
         THEN [err |-> NoExc, tx |-> Len(st) + 1, cat |-> "NESTED", st |-> begin_nested(st)]
         ELSE IF CurrentTx(st) # NoTx /\ ~IsNested(CurrentTx(st))
         THEN [err |-> NoExc, tx |-> 1, cat |-> "REUSED", st |-> begin(st)]
         ELSE [err |-> Http500, tx |-> NoTx, cat |-> "NONE", st |-> st]
    ELSE [err |-> NoExc, tx |-> 1, cat |-> "ROOT", st |-> begin(st)]

\* _begin that takes the current transaction where it should open a savepoint.
BeginNoSavepoint(st, nested) ==
    IF in_transaction(st)
    THEN IF nested
         THEN [err |-> NoExc, tx |-> CurrentTx(st), cat |-> "NESTED", st |-> st]
         ELSE IF CurrentTx(st) # NoTx /\ ~IsNested(CurrentTx(st))
         THEN [err |-> NoExc, tx |-> CurrentTx(st), cat |-> "REUSED", st |-> st]
         ELSE [err |-> Http500, tx |-> NoTx, cat |-> "NONE", st |-> st]
    ELSE [err |-> NoExc, tx |-> 1, cat |-> "ROOT", st |-> begin(st)]

\* Transaction._begin: the handle the scope gets, the branch taken (cat) and
\* the session afterwards; err is the exception raised, if any.
_begin(st, nested) ==
    IF in_transaction(st)
    THEN IF nested
         THEN [err |-> NoExc, tx |-> Len(st) + 1, cat |-> "NESTED", st |-> begin_nested(st)]
         ELSE IF CurrentTx(st) # NoTx /\ ~IsNested(CurrentTx(st))
         THEN [err |-> NoExc, tx |-> CurrentTx(st), cat |-> "REUSED", st |-> st]
         ELSE [err |-> Http500, tx |-> NoTx, cat |-> "NONE", st |-> st]
    ELSE [err |-> NoExc, tx |-> 1, cat |-> "ROOT", st |-> begin(st)]

\* __exit__ that returns True after the rollback too.
ExitSwallows(st, com, s, e) ==
    IF s.tx = NoTx \/ ~is_active(st, s.tx)
    THEN [calls |-> <<>>, ret |-> FALSE, st |-> st, com |-> com]
    ELSE IF s.force \/ e # NoExc
    THEN LET r == rollback(st, com, s.tx)
         IN [calls |-> <<"rollback">>, ret |-> TRUE, st |-> r.st, com |-> r.com]
    ELSE LET r == commit(st, com, s.tx)
         IN [calls |-> <<"commit">>, ret |-> TRUE, st |-> r.st, com |-> r.com]

\* __exit__ that does not read the forced-rollback flag.
ExitIgnoresFlag(st, com, s, e) ==
    IF s.tx = NoTx \/ ~is_active(st, s.tx)
    THEN [calls |-> <<>>, ret |-> FALSE, st |-> st, com |-> com]
    ELSE IF e # NoExc
    THEN LET r == rollback(st, com, s.tx)
         IN [calls |-> <<"rollback">>, ret |-> FALSE, st |-> r.st, com |-> r.com]
    ELSE LET r == commit(st, com, s.tx)
         IN [calls |-> <<"commit">>, ret |-> TRUE, st |-> r.st, com |-> r.com]

\* __exit__ that leaves a joined transaction to the scope that began it.
ExitLeavesJoined(st, com, s, e) ==
    IF s.tx = NoTx \/ ~is_active(st, s.tx) \/ s.cat = "REUSED"
    THEN [calls |-> <<>>, ret |-> FALSE, st |-> st, com |-> com]
    ELSE IF s.force \/ e # NoExc
    THEN LET r == rollback(st, com, s.tx)
         IN [calls |-> <<"rollback">>, ret |-> FALSE, st |-> r.st, com |-> r.com]
    ELSE LET r == commit(st, com, s.tx)
         IN [calls |-> <<"commit">>, ret |-> TRUE, st |-> r.st, com |-> r.com]

\* __exit__ without the check of the handle: it finalizes whatever it holds.
ExitNoActiveCheck(st, com, s, e) ==
    IF s.force \/ e # NoExc
    THEN LET r == rollback(st, com, IF is_active(st, s.tx) THEN s.tx ELSE Len(st) + 1)
         IN [calls |-> <<"rollback">>, ret |-> FALSE, st |-> r.st, com |-> r.com]
    ELSE LET r == IF is_active(st, s.tx) THEN commit(st, com, s.tx)
                  ELSE [st |-> st, com |-> com]
         IN [calls |-> <<"commit">>, ret |-> TRUE, st |-> r.st, com |-> r.com]

\* Transaction.__exit__: the calls made on the handle, the value returned
\* and the session afterwards.
__exit__(st, com, s, e) ==
    IF s.tx = NoTx \/ ~is_active(st, s.tx)
    THEN [calls |-> <<>>, ret |-> FALSE, st |-> st, com |-> com]
    ELSE IF s.force \/ e # NoExc
    THEN LET r == rollback(st, com, s.tx)
         IN [calls |-> <<"rollback">>, ret |-> FALSE, st |-> r.st, com |-> r.com]
    ELSE LET r == commit(st, com, s.tx)
         IN [calls |-> <<"commit">>, ret |-> TRUE, st |-> r.st, com |-> r.com]

\* Transaction.force_commit / Transaction.force_rollback: finalize the
\* handle, then run _begin again.  commit()/rollback() on a handle that is
\* closed raises and _begin is not reached.  mid is the length of the
\* session's stack between the two calls.
\* force_commit that does not run _begin again.
force_commit_no_begin(st, com, s) ==
    IF ~is_active(st, s.tx)
    THEN [err |-> ClosedExc, calls |-> <<>>, tx |-> s.tx, cat |-> s.cat,
          st |-> st, com |-> com, mid |-> Len(st)]
    ELSE LET r == commit(st, com, s.tx)
         IN [err |-> NoExc, calls |-> <<"commit">>, tx |-> NoTx, cat |-> s.cat,
             st |-> r.st, com |-> r.com, mid |-> Len(r.st)]

force_commit(st, com, s) ==
    IF ~is_active(st, s.tx)
    THEN [err |-> ClosedExc, calls |-> <<>>, tx |-> s.tx, cat |-> s.cat,
          st |-> st, com |-> com, mid |-> Len(st)]
    ELSE LET r == commit(st, com, s.tx)
             b == _begin(r.st, s.nested)
         IN [err |-> b.err, calls |-> <<"commit">>, tx |-> b.tx,
             cat |-> IF b.err = NoExc THEN b.cat ELSE s.cat,
             st |-> b.st, com |-> r.com, mid |-> Len(r.st)]

\* force_rollback that only runs _begin again.
force_rollback_no_rollback(st, com, s) ==
    IF ~is_active(st, s.tx)
    THEN [err |-> ClosedExc, calls |-> <<>>, tx |-> s.tx, cat |-> s.cat,
          st |-> st, com |-> com, mid |-> Len(st)]
    ELSE LET b == _begin(st, s.nested)
         IN [err |-> b.err, calls |-> <<"rollback">>, tx |-> b.tx,
             cat |-> IF b.err = NoExc THEN b.cat ELSE s.cat,
             st |-> b.st, com |-> com, mid |-> Len(st)]

force_rollback(st, com, s) ==
    IF ~is_active(st, s.tx)
    THEN [err |-> ClosedExc, calls |-> <<>>, tx |-> s.tx, cat |-> s.cat,
          st |-> st, com |-> com, mid |-> Len(st)]
    ELSE LET r == rollback(st, com, s.tx)
             b == _begin(r.st, s.nested)
         IN [err |-> b.err, calls |-> <<"rollback">>, tx |-> b.tx,
             cat |-> IF b.err = NoExc THEN b.cat ELSE s.cat,
             st |-> b.st, com |-> r.com, mid |-> Len(r.st)]

----------------------------------------------------------------------------
\* History: the last call of __enter__, __exit__, force_commit or
\* force_rollback and what it did; the other steps clear it.

NoLast ==
    [op |-> "none", idx |-> 0, nested |-> FALSE, force |-> FALSE,
     cat |-> "NONE", cat2 |-> "NONE", tx |-> NoTx, tx2 |-> NoTx,
     active |-> FALSE, active2 |-> FALSE,
     excIn |-> NoExc, excOut |-> NoExc, calls |-> <<>>, ret |-> FALSE,
     visBefore |-> {}, visAfter |-> {}, comBefore |-> {}, comAfter |-> {},
     wrote |-> {}, enclTx |-> NoTx, enclWrote |-> {},
     curTx |-> NoTx, curNested |-> FALSE, sameSession |-> TRUE]

\* The rows written inside scope s since it got its present handle.
Wrote(s) == {r \in Rows : s.since <= r /\ r < nextRow}

\* The scope enclosing scope i (none for the outermost one).
EnclTx(sc, i) == IF i > 1 /\ i - 1 <= Len(sc) THEN sc[i - 1].tx ELSE NoTx
EnclWrote(sc, i) == IF i > 1 /\ i - 1 <= Len(sc) THEN Wrote(sc[i - 1]) ELSE {}

Snapshot(op, i, s, st2, com2, e2) ==
    [NoLast EXCEPT
        !.op = op, !.idx = i, !.nested = s.nested, !.force = s.force,
        !.cat = s.cat, !.tx = s.tx,
        !.active = (s.tx # NoTx /\ is_active(txStack, s.tx)),
        !.active2 = (s.tx # NoTx /\ is_active(st2, s.tx)),
        !.excIn = exc, !.excOut = e2,
        !.visBefore = Visible(txStack, committed), !.visAfter = Visible(st2, com2),
        !.comBefore = committed, !.comAfter = com2,
        !.wrote = IF s.tx = NoTx THEN {} ELSE Wrote(s),
        !.enclTx = EnclTx(scopes, i), !.enclWrote = EnclWrote(scopes, i),
        !.curTx = CurrentTx(txStack), !.curNested = IsNested(CurrentTx(txStack)),
        !.sameSession = (st2 = txStack /\ com2 = committed)]

----------------------------------------------------------------------------
\* The running program.

Init ==
    /\ allowNesting \in BOOLEAN
    /\ phase = "new"
    /\ txStack = <<>>
    /\ committed = {}
    /\ scopes = <<>>
    /\ exc = NoExc
    /\ nextRow = 1
    /\ last = NoLast
    /\ call = NoCall
    /\ result = NoResult
    /\ SchemaIdle
    /\ DataIdle

\* get_raw_session / SessionFactory.open: a new session, no transaction.
get_raw_session ==
    /\ phase = "new"
    /\ phase' = "session"
    /\ last' = NoLast
    /\ UNCHANGED <<allowNesting, txStack, committed, scopes, exc, nextRow>>
    /\ UNCHANGED libVars

\* `with Transaction(db, nested)`: __init__ and __enter__.  MaxDepth bounds
\* the scopes open at once; the join of a savepoint, which opens none, is
\* tried at any depth.
EnterWith(nested) ==
    LET s0 == __init__(nested)
        b == _begin(txStack, nested)
        k == Len(scopes) + 1
    IN /\ Len(scopes) < MaxDepth \/ (~nested /\ IsNested(CurrentTx(txStack)))
       /\ exc = NoExc
       /\ txStack' = b.st
       /\ exc' = b.err
       /\ scopes' = IF b.err = NoExc
                    THEN Append(scopes, [s0 EXCEPT !.tx = b.tx, !.cat = b.cat,
                                                   !.since = nextRow])
                    ELSE scopes
       /\ last' = [Snapshot("enter", k, s0, b.st, committed, b.err) EXCEPT
                      !.cat2 = b.cat, !.tx2 = b.tx,
                      !.active2 = (b.tx # NoTx /\ is_active(b.st, b.tx))]
       /\ UNCHANGED <<allowNesting, committed, nextRow>>
       /\ UNCHANGED libVars

\* get_root_transaction, up to its yield.
get_root_transaction ==
    /\ phase = "session"
    /\ phase' = "run"
    /\ EnterWith(allowNesting)

\* A Transaction scope opened by the running code.
Enter(nested) ==
    /\ phase = "run"
    /\ UNCHANGED phase
    /\ EnterWith(nested)

\* The running code writes one new row and flushes it (Model.create / save).
Write ==
    /\ phase = "run"
    /\ exc = NoExc
    /\ nextRow <= MaxRows
    /\ txStack' = flush(txStack, nextRow)
    /\ nextRow' = nextRow + 1
    /\ last' = NoLast
    /\ UNCHANGED <<allowNesting, phase, committed, scopes, exc>>
    /\ UNCHANGED libVars

\* The running code raises.
Raise ==
    /\ phase = "run"
    /\ exc = NoExc
    /\ exc' = AppExc
    /\ last' = NoLast
    /\ UNCHANGED <<allowNesting, phase, txStack, committed, scopes, nextRow>>
    /\ UNCHANGED libVars

\* A try/except of the running code handles the exception.
Catch ==
    /\ phase = "run"
    /\ exc # NoExc
    /\ exc' = NoExc
    /\ last' = NoLast
    /\ UNCHANGED <<allowNesting, phase, txStack, committed, scopes, nextRow>>
    /\ UNCHANGED libVars

\* The innermost scope is left: Transaction.__exit__ with the exception that
\* is propagating; a truthy return value suppresses the exception.
ExitWith ==
    LET k == Len(scopes)
        s == scopes[k]
        x == __exit__(txStack, committed, s, exc)
        e2 == IF x.ret THEN NoExc ELSE exc
    IN /\ k >= 1
       /\ txStack' = x.st
       /\ committed' = x.com
       /\ exc' = e2
       /\ scopes' = CloseAbove(SubSeq(scopes, 1, k - 1), Len(x.st))
       /\ last' = [Snapshot("exit", k, s, x.st, x.com, e2) EXCEPT
                      !.calls = x.calls, !.ret = x.ret]
       /\ UNCHANGED <<allowNesting, nextRow>>
       /\ UNCHANGED libVars

\* A scope of the running code ends.
ExitScope ==
    /\ phase = "run"
    /\ Len(scopes) >= 2
    /\ ExitWith
    /\ UNCHANGED phase

\* get_root_transaction after its yield: the handler has returned or raised.
ExitRoot ==
    /\ phase = "run"
    /\ Len(scopes) = 1
    /\ ExitWith
    /\ phase' = "done"

\* trs.force_commit() on one of the open scopes.
ForceCommit(i) ==
    LET s == scopes[i]
        f == force_commit(txStack, committed, s)
    IN /\ phase = "run"
       /\ exc = NoExc
       /\ txStack' = f.st
       /\ committed' = f.com
       /\ exc' = f.err
       /\ scopes' = [CloseAbove(scopes, f.mid) EXCEPT ![i].tx = f.tx, ![i].cat = f.cat,
                        ![i].since = IF f.calls = <<>> THEN @ ELSE nextRow]
       /\ last' = [Snapshot("force_commit", i, s, f.st, f.com, f.err) EXCEPT
                      !.calls = f.calls, !.cat2 = f.cat, !.tx2 = f.tx,
                      !.active2 = is_active(f.st, f.tx)]
       /\ UNCHANGED <<allowNesting, phase, nextRow>>
       /\ UNCHANGED libVars

\* trs.force_rollback() on one of the open scopes.
ForceRollback(i) ==
    LET s == scopes[i]
        f == force_rollback(txStack, committed, s)
    IN /\ phase = "run"
       /\ exc = NoExc
       /\ txStack' = f.st
       /\ committed' = f.com
       /\ exc' = f.err
       /\ scopes' = [CloseAbove(scopes, f.mid) EXCEPT ![i].tx = f.tx, ![i].cat = f.cat,
                        ![i].since = IF f.calls = <<>> THEN @ ELSE nextRow]
       /\ last' = [Snapshot("force_rollback", i, s, f.st, f.com, f.err) EXCEPT
                      !.calls = f.calls, !.cat2 = f.cat, !.tx2 = f.tx,
                      !.active2 = is_active(f.st, f.tx)]
       /\ UNCHANGED <<allowNesting, phase, nextRow>>
       /\ UNCHANGED libVars

\* trs.set_force_rollback() on one of the open scopes.
set_force_rollback(i) ==
    /\ phase = "run"
    /\ exc = NoExc
    /\ ~scopes[i].force
    /\ scopes' = [scopes EXCEPT ![i].force = TRUE]
    /\ last' = NoLast
    /\ UNCHANGED <<allowNesting, phase, txStack, committed, exc, nextRow>>
    /\ UNCHANGED libVars

\* get_raw_session after its yield: the session is closed and whatever is
\* still open is rolled back.
CloseSession ==
    /\ phase = "done"
    /\ phase' = "closed"
    /\ txStack' = <<>>
    /\ scopes' = CloseAbove(scopes, 0)
    /\ last' = NoLast
    /\ UNCHANGED <<allowNesting, committed, exc, nextRow>>
    /\ UNCHANGED libVars

Next ==
    \/ get_raw_session
    \/ get_root_transaction
    \/ \E n \in BOOLEAN : Enter(n)
    \/ Write
    \/ Raise
    \/ Catch
    \/ ExitScope
    \/ ExitRoot
    \/ \E i \in 1..Len(scopes) : ForceCommit(i)
    \/ \E i \in 1..Len(scopes) : ForceRollback(i)
    \/ \E i \in 1..Len(scopes) : set_force_rollback(i)
    \/ CloseSession

Spec == Init /\ [][Next]_vars

\* The request of the atomicity contract: its handler opens only
\* nested=False scopes and calls no force_commit, force_rollback or
\* set_force_rollback.
RequestNext ==
    \/ get_raw_session
    \/ get_root_transaction
    \/ Enter(FALSE)
    \/ Write
    \/ Raise
    \/ Catch
    \/ ExitScope
    \/ ExitRoot
    \/ CloseSession

RequestSpec == Init /\ [][RequestNext]_vars

----------------------------------------------------------------------------
\* Properties.

\* The rows written so far.
Written == {r \in Rows : r < nextRow}

IsExit == last.op = "exit"
IsEnter == last.op = "enter"
IsForce == last.op \in {"force_commit", "force_rollback"}

\* C1: the exit of a scope whose handle is still active makes exactly one
\* finalizing call on the handle: rollback if an exception is propagating
\* or the forced-rollback flag is set, commit otherwise.
C1_ExactlyOneFinalizingCall ==
    (IsExit /\ last.active) =>
        /\ Len(last.calls) = 1
        /\ last.calls[1] = (IF last.excIn # NoExc \/ last.force
                            THEN "rollback" ELSE "commit")
        /\ ~last.active2

\* An exit that rolls back because of the flag alone.
C1_Witness ==
    /\ IsExit /\ last.active /\ last.force /\ last.excIn = NoExc
    /\ last.calls = <<"rollback">>

C3_NeverSwallows ==
    (IsExit /\ last.excIn # NoExc) =>
        /\ ~last.ret
        /\ last.excOut = last.excIn
        /\ exc = last.excIn

\* An exception that left a scope after the rollback of its active handle.
C3_Witness ==
    /\ IsExit /\ last.excIn = AppExc /\ last.calls = <<"rollback">>
    /\ exc = AppExc

\* C4: savepoint isolation.  The rollback of a nested scope removes exactly
\* the rows written inside it, so the rows of the enclosing scope stay
\* visible; its commit makes nothing durable and hands its rows to the
\* enclosing transaction, whose rollback removes them and whose commit, when
\* it is the root, makes them durable.
C4_SavepointIsolation ==
    (IsExit /\ last.active) =>
        /\ (last.cat = "NESTED" /\ last.calls = <<"rollback">>) =>
              /\ last.visAfter = last.visBefore \ last.wrote
              /\ last.comAfter = last.comBefore
        /\ (last.cat = "NESTED" /\ last.calls = <<"commit">>) =>
              /\ last.visAfter = last.visBefore
              /\ last.comAfter = last.comBefore
              /\ last.wrote \cap last.comAfter = {}
              /\ last.tx > 1 /\ Len(txStack) = last.tx - 1
              /\ (last.wrote \cap last.visBefore) \subseteq txStack[last.tx - 1]
              /\ (last.wrote \cap last.visBefore) \subseteq last.enclWrote
        /\ last.calls = <<"rollback">> => last.visAfter \cap last.wrote = {}
        /\ (last.calls = <<"commit">> /\ last.cat = "ROOT") =>
              (last.wrote \cap last.visBefore) \subseteq last.comAfter

\* A nested scope rolled back after it and the enclosing scope wrote a row each.
C4_Witness ==
    /\ IsExit /\ last.cat = "NESTED" /\ last.active
    /\ last.excIn = AppExc /\ last.calls = <<"rollback">>
    /\ last.wrote # {}
    /\ last.enclWrote \ last.wrote # {}
    /\ (last.enclWrote \ last.wrote) \subseteq Visible(txStack, committed)

C6_JoinedRollbackTakesOuterRows ==
    /\ (IsExit /\ last.cat = "REUSED" /\ last.active /\ last.enclTx = last.tx
            /\ last.excIn # NoExc) =>
          /\ (last.enclWrote \cup last.wrote) \cap Visible(txStack, committed) = {}
          /\ last.comAfter = last.comBefore
    /\ IsExit => /\ last.visAfter \subseteq last.visBefore
                 /\ last.comAfter \subseteq last.visBefore
    /\ (IsExit /\ ~last.active) => last.sameSession

\* The exception left the inner scope after both scopes wrote a row.
C6_Witness ==
    /\ IsExit /\ last.cat = "REUSED" /\ last.active /\ last.enclTx = last.tx
    /\ last.excIn = AppExc
    /\ last.wrote # {}
    /\ last.enclWrote \ last.wrote # {}
    /\ Visible(txStack, committed) = {}

\* C7: entering a nested=False scope while the session's current
\* transaction is a savepoint raises the 500 error, acquires no handle and
\* leaves the session and the open scopes as they were.
C7_AmbiguousJoinRaises ==
    (IsEnter /\ ~last.nested /\ last.curNested) =>
        /\ last.excOut = Http500
        /\ exc = Http500
        /\ last.tx2 = NoTx
        /\ last.sameSession
        /\ Len(scopes) = last.idx - 1
        /\ Len(txStack) = last.curTx

\* The error was raised with the testing override not set.
C7_Witness ==
    /\ IsEnter /\ ~last.nested /\ last.curNested /\ ~allowNesting
    /\ exc = Http500
    /\ Len(txStack) = 2

C9_ForcedRollbackRemovesRows ==
    /\ (last.op = "force_rollback" /\ last.active) =>
          /\ last.wrote \cap Visible(txStack, committed) = {}
          /\ last.cat = "NESTED" => last.visAfter = last.visBefore \ last.wrote
    /\ (IsExit /\ last.active /\ last.force) =>
          /\ last.calls = <<"rollback">>
          /\ last.wrote \cap Visible(txStack, committed) = {}
          /\ last.cat = "NESTED" => last.visAfter = last.visBefore \ last.wrote
    /\ ((IsExit \/ IsForce) /\ last.calls = <<"commit">> /\ last.tx = 1) =>
          last.comAfter = last.visBefore
    /\ (IsExit \/ IsForce) =>
          /\ last.visAfter \subseteq last.visBefore
          /\ last.comAfter \subseteq last.visBefore

\* force_rollback() of a nested scope after it and the root scope wrote a row each.
C9_Witness ==
    /\ last.op = "force_rollback" /\ last.active /\ last.cat = "NESTED"
    /\ last.wrote # {}
    /\ last.visBefore \ last.wrote # {}
    /\ Visible(txStack, committed) = last.visBefore \ last.wrote

\* C10: when the session of a request is closed, every row the request
\* wrote is committed if the handler returned and none is if it raised.
C10_RequestAtomicity ==
    phase = "closed" =>
        \/ exc = NoExc /\ committed = Written
        \/ exc # NoExc /\ committed = {}

\* C11: the exit of a scope whose handle is no longer active calls neither
\* commit nor rollback, raises nothing of its own (the exception it was
\* reached with, if any, goes on; none appears) and leaves the session and
\* the durable rows as they were.
C11_InactiveExitIsNoop ==
    (IsExit /\ ~last.active) =>
        /\ last.calls = <<>>
        /\ ~last.ret
        /\ last.excOut = last.excIn
        /\ exc = last.excIn
        /\ last.sameSession
        /\ last.visAfter = last.visBefore /\ last.comAfter = last.comBefore

\* The root scope ends normally after an inner scope closed the transaction
\* it holds and a row was written since.
C11_Witness ==
    /\ IsExit /\ ~last.active /\ last.idx = 1 /\ last.excIn = NoExc
    /\ last.calls = <<>> /\ exc = NoExc
    /\ txStack # <<>>

----------------------------------------------------------------------------
\* Queryable (fastapi_solo/db/queryable.py): the query DSL.
\*
\* A query is the sequence of the operations applied to it so far.  The
\* mapped classes the calls are made on are those of tests/mock/models.py
\* (Post, Tag, Message) and example/models/poly.py (Poly, PolyA, PolyB), and
\* Account, a class with one column for each branch of _apply_column_filter.
\* User and Profile are the classes schemas are generated for besides
\* those: User has a column whose name contains "password", and each is
\* reached from the other by a relationship.

ModelNames == {"Post", "Tag", "Message", "Poly", "PolyA", "PolyB", "Account"}

\* The columns of each class and their python_type.
Columns ==
    [Post    |-> [id |-> "int", title |-> "str", rating |-> "int", json_field |-> "dict"],
     Tag     |-> [id |-> "int", name |-> "str"],
     Message |-> [id |-> "int", text |-> "str", post_id |-> "int"],
     Poly    |-> [id |-> "int", type |-> "str"],
     PolyA   |-> [id |-> "int", type |-> "str", a |-> "str"],
     PolyB   |-> [id |-> "int", type |-> "str", b |-> "str"],
     Account |-> [id |-> "int", name |-> "str", active |-> "bool",
                  balance |-> "float", created_at |-> "datetime"],
     User    |-> [id |-> "int", name |-> "str", password_hash |-> "str"],
     Profile |-> [id |-> "int", bio |-> "str", user_id |-> "int"]]

\* The relationships of each class: the related class and uselist.
NoRels == [k \in {} |-> [target |-> "", uselist |-> FALSE]]
Relationships ==
    [Post    |-> [messages |-> [target |-> "Message", uselist |-> TRUE]],
     Tag     |-> [messages |-> [target |-> "Message", uselist |-> TRUE]],
     Message |-> [post |-> [target |-> "Post", uselist |-> FALSE],
                  tags |-> [target |-> "Tag", uselist |-> TRUE]],
     Poly    |-> NoRels,
     PolyA   |-> NoRels,
     PolyB   |-> NoRels,
     Account |-> NoRels,
     User    |-> [profile |-> [target |-> "Profile", uselist |-> FALSE]],
     Profile |-> [user |-> [target |-> "User", uselist |-> FALSE]]]

\* The of_<key> and by_<key> static methods of each class (a subclass
\* inherits those of its base).
OfScopes ==
    [Post    |-> {"ids", "title_like", "json_filter"},
     Tag     |-> {},
     Message |-> {},
     Poly    |-> {"eqtype"},
     PolyA   |-> {"eqtype", "eqa"},
     PolyB   |-> {"eqtype", "eqb"},
     Account |-> {}]

ByScopes ==
    [Post    |-> {"json_order"},
     Tag     |-> {},
     Message |-> {},
     Poly    |-> {},
     PolyA   |-> {},
     PolyB   |-> {},
     Account |-> {}]

\* mapper.polymorphic_map of each class, in registration order.
polymorphic_map ==
    [Post    |-> <<>>,
     Tag     |-> <<>>,
     Message |-> <<>>,
     Poly    |-> <<"PolyA", "PolyB">>,
     PolyA   |-> <<"PolyA", "PolyB">>,
     PolyB   |-> <<"PolyA", "PolyB">>,
     Account |-> <<>>]

\* The names of mapper.c, the value of filter_by for "*".
MapperColumns(cls) == DOMAIN Columns[cls]

\* _set_queryables: __queryable__ after the decorator has run on cls, given
\* the value the class had (inherited from its base, or none).
_set_queryables(current, cls, filter_by) ==
    [has |-> TRUE,
     keys |-> (IF current.has THEN current.keys ELSE {})
              \cup (IF filter_by = {"*"} THEN MapperColumns(cls) ELSE filter_by)]

NotQueryable == [has |-> FALSE, keys |-> {}]

\* __queryable__ of each class, as the decorators of the class definitions
\* leave it: @queryable on Post, Poly, PolyA, PolyB and Account,
\* @queryable("name") on Tag, none on Message.  The decorator of a subclass
\* runs after the base class is complete and sets the attribute on the
\* subclass only.
__queryable__ ==
    LET poly == _set_queryables(NotQueryable, "Poly", {"*"})
    IN [Post    |-> _set_queryables(NotQueryable, "Post", {"*"}),
        Tag     |-> _set_queryables(NotQueryable, "Tag", {"name"}),
        Message |-> NotQueryable,
        Poly    |-> poly,
        PolyA   |-> _set_queryables(poly, "PolyA", {"*"}),
        PolyB   |-> _set_queryables(poly, "PolyB", {"*"}),
        Account |-> _set_queryables(NotQueryable, "Account", {"*"})]

\* inflection.underscore on the keys used here.
underscore(key) ==
    CASE key = "titleLike" -> "title_like"
      [] key = "jsonField" -> "json_field"
      [] key = "jsonOrder" -> "json_order"
      [] key = "jsonFilter" -> "json_filter"
      [] key = "jsonOrder[k]" -> "json_order[k]"
      [] key = "jsonFilter[k]" -> "json_filter[k]"
      [] key = "postId" -> "post_id"
      [] OTHER -> key

\* An attribute of a class, as getattr finds it; prefix is "of_", "by_" or
\* "" and is written before the key in the name looked up.
NoAttr ==
    [kind |-> "none", owner |-> "", name |-> "", type |-> "",
     target |-> "", uselist |-> FALSE]

getattr(model, prefix, key) ==
    IF prefix = "of_"
    THEN IF key \in OfScopes[model]
         THEN [NoAttr EXCEPT !.kind = "scope", !.owner = model, !.name = key]
         ELSE NoAttr
    ELSE IF prefix = "by_"
    THEN IF key \in ByScopes[model]
         THEN [NoAttr EXCEPT !.kind = "scope", !.owner = model, !.name = key]
         ELSE NoAttr
    ELSE IF key \in DOMAIN Columns[model]
    THEN [NoAttr EXCEPT !.kind = "column", !.owner = model, !.name = key,
                        !.type = Columns[model][key]]
    ELSE IF key \in DOMAIN Relationships[model]
    THEN [NoAttr EXCEPT !.kind = "relationship", !.owner = model, !.name = key,
                        !.target = Relationships[model][key].target,
                        !.uselist = Relationships[model][key].uselist]
    ELSE NoAttr

\* The first class of the polymorphic map, from position i on, that has the
\* attribute.
RECURSIVE ProbeSubtypes(_, _, _, _)
ProbeSubtypes(pm, i, prefix, key) ==
    IF i > Len(pm)
    THEN NoAttr
    ELSE IF getattr(pm[i], prefix, key) # NoAttr
    THEN getattr(pm[i], prefix, key)
    ELSE ProbeSubtypes(pm, i + 1, prefix, key)

\* _get_model_attr_k without the probe of the polymorphic subtypes.
GetAttrNoProbe(model, prefix, key) == getattr(model, prefix, key)

\* Queryable._get_model_attr_k
_get_model_attr_k(model, prefix, key) ==
    IF getattr(model, prefix, key) = NoAttr /\ Len(polymorphic_map[model]) > 0
    THEN ProbeSubtypes(polymorphic_map[model], 1, prefix, key)
    ELSE getattr(model, prefix, key)

\* Queryable._get_model_attr
_get_model_attr(model, prefix, key) ==
    IF _get_model_attr_k(model, prefix, key) # NoAttr
    THEN _get_model_attr_k(model, prefix, key)
    ELSE _get_model_attr_k(model, prefix, underscore(key))

\* One operation applied to a query.
BlankOp ==
    [op |-> "", prefix |-> "", key |-> "", owner |-> "", cmp |-> "", val |-> "",
     json |-> "", desc |-> FALSE, load |-> <<>>, skip |-> 0, limit |-> 0]

\* The filter keys written col[json_key]: key.split("[") and removesuffix("]").
Bracket ==
    ("json_filter[k]" :> [col |-> "json_filter", json |-> "k"]) @@
    ("json_order[k]" :> [col |-> "json_order", json |-> "k"]) @@
    ("jsonFilter[k]" :> [col |-> "jsonFilter", json |-> "k"]) @@
    ("jsonOrder[k]" :> [col |-> "jsonOrder", json |-> "k"]) @@
    ("nope[k]" :> [col |-> "nope", json |-> "k"])

HasBracket(key) == key \in DOMAIN Bracket

\* The filter values and what the conversions of _apply_column_filter make
\* of them: int(value) and float(value) raise unless the value is a number,
\* value.split(",") gives the parts of a range.
IsNumber(value) == value \in {"7"}
CommaParts(value) ==
    CASE value = "d1,d2" -> 2
      [] value = "d1,d2,d3" -> 3
      [] OTHER -> 1

\* utils.misc.parse_bool
parse_bool(string) ==
    CASE string = "true" -> "True"
      [] string = "false" -> "False"
      [] OTHER -> "None"

\* _apply_column_filter that lets the exception of a conversion out.
ColumnFilterRaises(q, value, attr, use_like) ==
    LET f == [BlankOp EXCEPT !.op = "filter", !.key = attr.name, !.owner = attr.owner]
    IN IF attr.type = "bool"
       THEN [err |-> "", q |-> Append(q, [f EXCEPT !.cmp = "eq", !.val = parse_bool(value)])]
       ELSE IF attr.type \in {"int", "float"}
       THEN IF IsNumber(value)
            THEN [err |-> "", q |-> Append(q, [f EXCEPT !.cmp = "eq", !.val = value])]
            ELSE [err |-> "ValueError", q |-> q]
       ELSE IF attr.type = "str" /\ use_like
       THEN [err |-> "", q |-> Append(q, [f EXCEPT !.cmp = "icontains", !.val = value])]
       ELSE IF attr.type \in {"datetime", "date"}
       THEN IF CommaParts(value) = 2
            THEN [err |-> "", q |-> Append(q, [f EXCEPT !.cmp = "between", !.val = value])]
            ELSE IF CommaParts(value) > 2
            THEN [err |-> "ValueError", q |-> q]
            ELSE [err |-> "", q |-> Append(q, [f EXCEPT !.cmp = "date_eq", !.val = value])]
       ELSE [err |-> "", q |-> Append(q, [f EXCEPT !.cmp = "eq", !.val = value])]

\* Queryable._apply_column_filter: the filter by the column's python_type;
\* an exception of the conversion is caught and the query is left as it was.
_apply_column_filter(q, value, attr, use_like) ==
    LET f == [BlankOp EXCEPT !.op = "filter", !.key = attr.name, !.owner = attr.owner]
    IN IF attr.type = "bool"
       THEN [err |-> "", q |-> Append(q, [f EXCEPT !.cmp = "eq", !.val = parse_bool(value)])]
       ELSE IF attr.type \in {"int", "float"}
       THEN IF IsNumber(value)
            THEN [err |-> "", q |-> Append(q, [f EXCEPT !.cmp = "eq", !.val = value])]
            ELSE [err |-> "", q |-> q]
       ELSE IF attr.type = "str" /\ use_like
       THEN [err |-> "", q |-> Append(q, [f EXCEPT !.cmp = "icontains", !.val = value])]
       ELSE IF attr.type \in {"datetime", "date"}
       THEN IF CommaParts(value) = 2
            THEN [err |-> "", q |-> Append(q, [f EXCEPT !.cmp = "between", !.val = value])]
            ELSE IF CommaParts(value) > 2
            THEN [err |-> "", q |-> q]
            ELSE [err |-> "", q |-> Append(q, [f EXCEPT !.cmp = "date_eq", !.val = value])]
       ELSE [err |-> "", q |-> Append(q, [f EXCEPT !.cmp = "eq", !.val = value])]

\* Queryable._apply_json_filter
_apply_json_filter(model, q, key, json_key, value) ==
    IF _get_model_attr(model, "of_", key).kind = "scope"
    THEN Append(q, [BlankOp EXCEPT !.op = "scope", !.prefix = "of_",
                       !.key = _get_model_attr(model, "of_", key).name,
                       !.owner = _get_model_attr(model, "of_", key).owner,
                       !.json = json_key, !.val = value])
    ELSE q

\* The body of the loop of query_by for one filter.
QueryByOne(model, q, key, value, use_like) ==
    IF HasBracket(key)
    THEN [err |-> "", q |-> _apply_json_filter(model, q, Bracket[key].col,
                                               Bracket[key].json, value)]
    ELSE IF _get_model_attr(model, "of_", key).kind = "scope"
    THEN [err |-> "",
          q |-> Append(q, [BlankOp EXCEPT !.op = "scope", !.prefix = "of_",
                              !.key = _get_model_attr(model, "of_", key).name,
                              !.owner = _get_model_attr(model, "of_", key).owner,
                              !.val = value])]
    ELSE IF key \in __queryable__[model].keys
    THEN IF _get_model_attr(model, "", key).kind = "column"
         THEN _apply_column_filter(q, value, _get_model_attr(model, "", key), use_like)
         ELSE [err |-> "", q |-> q]
    ELSE [err |-> "", q |-> q]

\* The loop of query_by from filter i on; an exception ends it.
RECURSIVE QueryByFrom(_, _, _, _, _)
QueryByFrom(model, q, filters, i, use_like) ==
    IF i > Len(filters)
    THEN [err |-> "", q |-> q]
    ELSE LET r == QueryByOne(model, q, filters[i].key, filters[i].val, use_like)
         IN IF r.err # ""
            THEN r
            ELSE QueryByFrom(model, r.q, filters, i + 1, use_like)

\* Queryable.query_by
query_by(model, q, filters, use_like) ==
    IF ~__queryable__[model].has
    THEN [err |-> "", q |-> q]
    ELSE QueryByFrom(model, q, filters, 1, use_like)

\* The sort tokens: a leading "-" asks for the descending order.
SortTokens ==
    ("title" :> [desc |-> FALSE, key |-> "title"]) @@
    ("-title" :> [desc |-> TRUE, key |-> "title"]) @@
    ("-json_order[k]" :> [desc |-> TRUE, key |-> "json_order[k]"]) @@
    ("json_order[k]" :> [desc |-> FALSE, key |-> "json_order[k]"]) @@
    ("jsonOrder[k]" :> [desc |-> FALSE, key |-> "jsonOrder[k]"]) @@
    ("json_field" :> [desc |-> FALSE, key |-> "json_field"]) @@
    ("-jsonField" :> [desc |-> TRUE, key |-> "jsonField"]) @@
    ("-json_field" :> [desc |-> TRUE, key |-> "json_field"]) @@
    ("jsonField" :> [desc |-> FALSE, key |-> "jsonField"]) @@
    ("nope" :> [desc |-> FALSE, key |-> "nope"])

\* Queryable._sort: the empty token is left alone.
_sort(model, q, token) ==
    IF token = ""
    THEN q
    ELSE LET is_desc == SortTokens[token].desc
             key == SortTokens[token].key
         IN IF HasBracket(key)
            THEN IF _get_model_attr(model, "by_", Bracket[key].col).kind = "scope"
                 THEN Append(q, [BlankOp EXCEPT !.op = "scope", !.prefix = "by_",
                                    !.key = _get_model_attr(model, "by_",
                                                            Bracket[key].col).name,
                                    !.owner = model,
                                    !.json = Bracket[key].json, !.desc = is_desc])
                 ELSE q
            ELSE IF _get_model_attr(model, "by_", key).kind = "scope"
            THEN Append(q, [BlankOp EXCEPT !.op = "scope", !.prefix = "by_",
                               !.key = _get_model_attr(model, "by_", key).name,
                               !.owner = model, !.desc = is_desc])
            ELSE IF _get_model_attr(model, "", key) # NoAttr
            THEN Append(q, [BlankOp EXCEPT !.op = "order_by",
                               !.key = _get_model_attr(model, "", key).name,
                               !.owner = _get_model_attr(model, "", key).owner,
                               !.desc = is_desc])
            ELSE q

\* Queryable.sort
RECURSIVE sort(_, _, _)
sort(model, q, tokens) ==
    IF tokens = <<>>
    THEN q
    ELSE sort(model, _sort(model, q, Head(tokens)), Tail(tokens))

\* Queryable._apply_join: the loader option chained after `join`;
\* selectinload for a collection, joinedload otherwise.
_apply_join(join, attr) ==
    Append(join, [fn |-> IF attr.uselist THEN "selectinload" ELSE "joinedload",
                  rel |-> attr.name, on |-> attr.owner])

\* _join that skips the segment it cannot resolve (silent=True).
RECURSIVE JoinSilent(_, _, _)
JoinSilent(parent, rels, join) ==
    LET attr == _get_model_attr(parent, "", rels[1])
    IN IF attr.kind = "relationship"
       THEN IF Len(rels) > 1
            THEN JoinSilent(attr.target, Tail(rels), _apply_join(join, attr))
            ELSE [err |-> "", detail |-> "", join |-> _apply_join(join, attr)]
       ELSE [err |-> "", detail |-> "", join |-> join]

\* Queryable._join: the loader option of a path, given as its segments.
RECURSIVE _join(_, _, _)
_join(parent, rels, join) ==
    LET attr == _get_model_attr(parent, "", rels[1])
    IN IF attr.kind = "relationship"
       THEN IF Len(rels) > 1
            THEN _join(attr.target, Tail(rels), _apply_join(join, attr))
            ELSE [err |-> "", detail |-> "", join |-> _apply_join(join, attr)]
       ELSE [err |-> "HTTPException(422)", detail |-> rels[1], join |-> join]

Wildcard == <<"*">>

\* The loop of includes from path i on.
RECURSIVE IncludesFrom(_, _, _, _)
IncludesFrom(model, q, include, i) ==
    IF i > Len(include)
    THEN [err |-> "", detail |-> "", q |-> q]
    ELSE LET j == _join(model, include[i], <<>>)
         IN IF j.err # ""
            THEN [err |-> j.err, detail |-> j.detail, q |-> q]
            ELSE IncludesFrom(model,
                              IF j.join # <<>>
                              THEN Append(q, [BlankOp EXCEPT !.op = "options", !.load = j.join])
                              ELSE q,
                              include, i + 1)

\* Queryable.includes
includes(model, q, include) ==
    IF \E i \in 1..Len(include) : include[i] = Wildcard
    THEN [err |-> "", detail |-> "",
          q |-> Append(q, [BlankOp EXCEPT !.op = "options",
                              !.load = <<[fn |-> "selectinload", rel |-> "*", on |-> ""]>>])]
    ELSE IncludesFrom(model, q, include, 1)

\* page and size: None, a number or, for size, "all".
None == [kind |-> "none", n |-> 0]
All == [kind |-> "all", n |-> 0]
Num(n) == [kind |-> "int", n |-> n]

\* Queryable.paginate
paginate(q, page, size) ==
    IF page.kind = "int" /\ size.kind = "int"
    THEN Append(q, [BlankOp EXCEPT !.op = "offset_limit",
                       !.skip = (page.n - 1) * size.n, !.limit = size.n])
    ELSE q

\* The rest of find once the filters have been applied: sort, then paginate.
FindSortPaginate(model, q, f, tokens, page, size) ==
    IF f.err # ""
    THEN [err |-> f.err, detail |-> "", q |-> q]
    ELSE [err |-> "", detail |-> "",
          q |-> paginate(sort(model, f.q, tokens), page, size)]

\* The rest of find once the includes have been applied: query_by and on.
FindQueryBy(model, q, i, filters, tokens, page, size, use_like) ==
    IF i.err # ""
    THEN [err |-> i.err, detail |-> i.detail, q |-> q]
    ELSE FindSortPaginate(model, q, query_by(model, i.q, filters, use_like),
                          tokens, page, size)

\* find that filters before it includes.
FindFiltersFirst(model, q, include, filters, tokens, page, size, use_like) ==
    LET f == query_by(model, q, filters, use_like)
        i == includes(model, f.q, include)
    IN IF f.err # ""
       THEN [err |-> f.err, detail |-> "", q |-> q]
       ELSE IF i.err # ""
       THEN [err |-> i.err, detail |-> i.detail, q |-> q]
       ELSE [err |-> "", detail |-> "",
             q |-> paginate(sort(model, i.q, tokens), page, size)]

\* Queryable.find: an argument that is None is an empty list or dict here.
find(model, q, include, filters, tokens, page, size, use_like) ==
    FindQueryBy(model, q, includes(model, q, include), filters, tokens, page,
                size, use_like)

----------------------------------------------------------------------------
\* The calls of the query DSL.

MaxFilters == 2     \* filters of one request
MaxIncludes == 2    \* include paths of one request
MaxSorts == 1       \* sort tokens of one request

\* The sequences of at most n elements of S, and those without a repeated key.
SeqsUpTo(S, n) == UNION {[1..k -> S] : k \in 0..n}
DistinctKeys(fs) == \A i, j \in 1..Len(fs) : i # j => fs[i].key # fs[j].key

FilterValues == {"true", "7", "x", "d1,d2", "d1,d2,d3"}

\* The filter keys tried on each class: its columns, its scopes, those of
\* the other classes of its hierarchy and a key that names nothing.
FilterKeys ==
    [Post    |-> {"title", "rating", "titleLike", "title_like", "jsonField",
                  "json_field", "ids", "json_filter[k]", "jsonFilter[k]", "nope"},
     Tag     |-> {"name", "id", "nope"},
     Message |-> {"text", "nope"},
     Poly    |-> {"type", "a", "b", "eqa", "nope"},
     PolyA   |-> {"a", "b", "eqa"},
     PolyB   |-> {"b", "a"},
     Account |-> {"active", "balance", "created_at", "name", "nope"}]

FilterDicts(model) ==
    {fs \in SeqsUpTo([key : FilterKeys[model], val : FilterValues], MaxFilters) :
        DistinctKeys(fs)}

\* The include paths tried on each class, as lists of segments.
IncludePaths ==
    [Post    |-> {<<"messages">>, <<"messages", "tags">>, <<"messages", "nope">>,
                  <<"nope">>, Wildcard},
     Tag     |-> {<<"messages">>, <<"messages", "post">>, <<"name">>, Wildcard},
     Message |-> {<<"post">>, <<"tags">>, <<"tags", "messages", "postId">>, Wildcard},
     Poly    |-> {<<"type">>},
     PolyA   |-> {<<"a">>},
     PolyB   |-> {<<"b">>},
     Account |-> {<<"name">>}]

IncludeLists(model) == SeqsUpTo(IncludePaths[model], MaxIncludes)

QueryByCalls ==
    UNION {{[fn |-> "query_by", model |-> m, filters |-> fs, use_like |-> l] :
               fs \in FilterDicts(m), l \in BOOLEAN} : m \in ModelNames}

IncludesCalls ==
    UNION {{[fn |-> "includes", model |-> m, include |-> inc] :
               inc \in IncludeLists(m)} : m \in ModelNames}

\* The requests find is called with, on Post: a filter scope and a key that
\* names nothing, a sort scope and a column, every case of page and size.
FindFilters ==
    {fs \in SeqsUpTo({[key |-> "ids", val |-> "7"], [key |-> "nope", val |-> "x"]},
                     MaxFilters) : DistinctKeys(fs)}
FindSorts == SeqsUpTo({"-title", "-json_order[k]", "nope"}, MaxSorts)
FindIncludes ==
    SeqsUpTo({<<"messages">>, <<"messages", "tags">>, <<"nope">>, Wildcard}, MaxIncludes)

FindCalls ==
    {[fn |-> "find", model |-> "Post", include |-> inc, filters |-> fs,
      tokens |-> ts, page |-> p, size |-> sz, use_like |-> FALSE] :
        inc \in FindIncludes, fs \in FindFilters, ts \in FindSorts,
        p \in {None, Num(1), Num(2)}, sz \in {None, Num(2), All}}

\* The sort tokens tried on Post: the sort scope and a column, each by its
\* name and by the camel-case form of it.
SortCalls ==
    {[fn |-> "sort", model |-> "Post", tokens |-> ts] :
        ts \in SeqsUpTo({"json_order[k]", "jsonOrder[k]", "json_field", "jsonField",
                         "-json_field", "-jsonField", "nope"}, MaxSorts + 1)}

\* The call has not returned yet.
Pending == [status |-> "pending"]

\* What the caller gets: the query, or the exception with its detail.
Outcome(r) ==
    IF r.err = ""
    THEN [status |-> "ok", err |-> "", detail |-> "", q |-> r.q]
    ELSE [status |-> "raised", err |-> r.err, detail |-> r.detail, q |-> <<>>]

\* query_by raises nothing of its own: its exceptions carry no detail.
NoDetail(r) == [err |-> r.err, detail |-> "", q |-> r.q]

\* The transaction protocol at rest.
TxIdle ==
    /\ allowNesting = FALSE
    /\ phase = "new"
    /\ txStack = <<>>
    /\ committed = {}
    /\ scopes = <<>>
    /\ exc = NoExc
    /\ nextRow = 1
    /\ last = NoLast

QueryInit ==
    /\ TxIdle
    /\ DataIdle
    /\ SchemaIdle
    /\ call \in QueryByCalls \cup IncludesCalls \cup FindCalls \cup SortCalls
    /\ result = Pending

\* select(model).query_by(**filters)
CallQueryBy ==
    /\ call.fn = "query_by" /\ result = Pending
    /\ result' = Outcome(NoDetail(query_by(call.model, <<>>, call.filters,
                                            call.use_like)))
    /\ UNCHANGED <<call, txVars, schemaVars, dataVars, injectVars>>

\* select(model).includes(*include)
CallIncludes ==
    /\ call.fn = "includes" /\ result = Pending
    /\ result' = Outcome(includes(call.model, <<>>, call.include))
    /\ UNCHANGED <<call, txVars, schemaVars, dataVars, injectVars>>

\* select(model).find(include, query_by, sort, page, size)
CallFind ==
    /\ call.fn = "find" /\ result = Pending
    /\ result' = Outcome(find(call.model, <<>>, call.include, call.filters,
                              call.tokens, call.page, call.size, call.use_like))
    /\ UNCHANGED <<call, txVars, schemaVars, dataVars, injectVars>>

\* select(model).sort(*tokens)
CallSort ==
    /\ call.fn = "sort" /\ result = Pending
    /\ result' = Outcome([err |-> "", detail |-> "", q |-> sort(call.model, <<>>, call.tokens)])
    /\ UNCHANGED <<call, txVars, schemaVars, dataVars, injectVars>>

QueryNext ==
    \/ CallQueryBy
    \/ CallIncludes
    \/ CallFind
    \/ CallSort

QuerySpec == QueryInit /\ [][QueryNext]_vars

----------------------------------------------------------------------------
\* Properties of the query DSL.

\* The stage of find an operation of the query comes from.
StageOf(o) ==
    CASE o.op = "options" -> 1
      [] o.op = "filter" -> 2
      [] o.op = "scope" /\ o.prefix = "of_" -> 2
      [] o.op = "scope" /\ o.prefix = "by_" -> 3
      [] o.op = "order_by" -> 3
      [] o.op = "offset_limit" -> 4

StagesInOrder(q) ==
    \A i, j \in 1..Len(q) : i < j => StageOf(q[i]) <= StageOf(q[j])

\* offset/limit is applied at most once, last, and exactly when page and
\* size are both numbers.
PaginatedLast(q, page, size) ==
    /\ \A i \in 1..Len(q) : q[i].op = "offset_limit" => i = Len(q)
    /\ (page.kind = "int" /\ size.kind = "int") <=>
          (Len(q) > 0 /\ q[Len(q)].op = "offset_limit")
    /\ (page.kind = "int" /\ size.kind = "int") =>
          /\ q[Len(q)].skip = (page.n - 1) * size.n
          /\ q[Len(q)].limit = size.n

\* The relationship path a loader option loads.
PathOf(load) == [i \in 1..Len(load) |-> load[i].rel]

\* The first n operations of q load path p: by its own option, or by the
\* wildcard for a direct relationship.
IncludeApplied(q, n, p) ==
    \E i \in 1..n :
        /\ q[i].op = "options"
        /\ \/ PathOf(q[i].load) = p
           \/ PathOf(q[i].load) = Wildcard /\ Len(p) = 1

HasWildcard(include) == \E k \in 1..Len(include) : include[k] = Wildcard

\* C12 as stated: find applies includes, query_by, sort and paginate in that
\* order for every combination of arguments, so every filter or sort scope
\* receives a query to which every requested include has been applied, and
\* offset/limit comes last.
C12_ScopesSeeEveryInclude ==
    (call.fn = "find" /\ result.status = "ok") =>
        /\ StagesInOrder(result.q)
        /\ PaginatedLast(result.q, call.page, call.size)
        /\ \A i \in 1..Len(result.q) :
              result.q[i].op = "scope" =>
                  \A k \in 1..Len(call.include) :
                      IncludeApplied(result.q, i - 1, call.include[k])

\* C12, amended: the stages run in the fixed order and offset/limit comes
\* last; a scope receives a query to which the whole includes stage has
\* been applied, which is every requested include when the request has no
\* "*", and the wildcard option alone when it has one.
C12_FixedStageOrder ==
    /\ (call.fn = "find" /\ result.status = "ok") =>
        /\ StagesInOrder(result.q)
        /\ PaginatedLast(result.q, call.page, call.size)
        /\ \A i \in 1..Len(result.q) :
              result.q[i].op = "scope" =>
                  IF HasWildcard(call.include)
                  THEN /\ result.q[1].op = "options"
                       /\ PathOf(result.q[1].load) = Wildcard
                       /\ \A j \in 2..Len(result.q) : result.q[j].op # "options"
                  ELSE /\ \A k \in 1..Len(call.include) :
                             IncludeApplied(result.q, i - 1, call.include[k])
                       /\ \A k \in 1..Len(call.include) :
                             /\ result.q[k].op = "options"
                             /\ PathOf(result.q[k].load) = call.include[k]
    /\ (call.fn = "find" /\ result.status = "raised") => result.q = <<>>

\* find with an include, a filter scope, a sort scope and a page.
C12_Witness ==
    /\ call.fn = "find" /\ result.status = "ok"
    /\ call.include = <<<<"messages", "tags">>>>
    /\ call.page = Num(2) /\ call.size = Num(2)
    /\ Len(result.q) = 4
    /\ result.q[1].op = "options"
    /\ result.q[2].op = "scope" /\ result.q[2].prefix = "of_"
    /\ result.q[3].op = "scope" /\ result.q[3].prefix = "by_"
    /\ result.q[4].op = "offset_limit" /\ result.q[4].skip = 2

\* The attribute name a request key stands for.
NameOf(key) == IF HasBracket(key) THEN underscore(Bracket[key].col) ELSE underscore(key)

\* A scope of the class, or of a subtype of its polymorphic map, has the name.
HasOfScope(model, name) ==
    \/ name \in OfScopes[model]
    \/ \E i \in 1..Len(polymorphic_map[model]) : name \in OfScopes[polymorphic_map[model][i]]

\* The conversion of the value for a column of the type raises.
CoercionRaises(type, value) ==
    \/ type \in {"int", "float"} /\ ~IsNumber(value)
    \/ type \in {"datetime", "date"} /\ CommaParts(value) > 2

\* The filters of a request query_by cannot apply: the key names no scope
\* and no declared queryable column, or the value does not convert.
CannotApply(model, f) ==
    \/ ~__queryable__[model].has
    \/ /\ ~HasOfScope(model, NameOf(f.key))
       /\ \/ HasBracket(f.key)
          \/ f.key \notin __queryable__[model].keys
          \/ _get_model_attr(model, "", f.key).kind # "column"
          \/ CoercionRaises(_get_model_attr(model, "", f.key).type, f.val)

\* The filters of the request, in order, without those that cannot be applied.
RECURSIVE AppliedFilters(_, _)
AppliedFilters(model, fs) ==
    IF fs = <<>>
    THEN <<>>
    ELSE IF CannotApply(model, Head(fs))
    THEN AppliedFilters(model, Tail(fs))
    ELSE <<Head(fs)>> \o AppliedFilters(model, Tail(fs))

\* C13: query_by raises for no request; a filter whose key names neither a
\* scope nor a declared queryable column, and a column filter whose value
\* does not convert, add nothing to the query, and every other filter of
\* the request is applied, in the order of the request.
C13_SkipsWhatItCannotApply ==
    (call.fn = "query_by" /\ result # Pending) =>
        LET ap == AppliedFilters(call.model, call.filters)
        IN /\ result.status = "ok"
           /\ Len(result.q) = Len(ap)
           /\ \A i \in 1..Len(ap) :
                 /\ result.q[i].op \in {"scope", "filter"}
                 /\ result.q[i].key = NameOf(ap[i].key)
                 /\ result.q[i].op = "scope" => result.q[i].val = ap[i].val
                 /\ (result.q[i].op = "filter" /\ result.q[i].cmp # "eq") =>
                       result.q[i].val = ap[i].val

\* A number that does not parse, then a filter that is applied.
C13_Witness ==
    /\ call.fn = "query_by" /\ result.status = "ok"
    /\ call.model = "Account"
    /\ call.filters = <<[key |-> "balance", val |-> "x"], [key |-> "name", val |-> "x"]>>
    /\ Len(result.q) = 1
    /\ result.q[1].key = "name"

\* The first segment of the path that is no relationship of the class
\* reached there, if there is one.
RECURSIVE FirstBad(_, _)
FirstBad(model, path) ==
    IF path = <<>>
    THEN [bad |-> FALSE, seg |-> ""]
    ELSE IF underscore(Head(path)) \in DOMAIN Relationships[model]
    THEN FirstBad(Relationships[model][underscore(Head(path))].target, Tail(path))
    ELSE [bad |-> TRUE, seg |-> Head(path)]

\* The dot-paths of the request with such a segment.
BadPaths(model, include) ==
    {k \in 1..Len(include) : include[k] # Wildcard /\ FirstBad(model, include[k]).bad}

FirstBadPath(model, include) ==
    CHOOSE k \in BadPaths(model, include) : \A j \in BadPaths(model, include) : k <= j

\* C14 as stated: includes raises the 422 error naming the offending segment
\* whenever a dot-path of the request has a segment that is no declared
\* relationship of the class reached there, and returns no query.
C14_BadSegmentAlwaysRaises ==
    (call.fn = "includes" /\ result # Pending
        /\ BadPaths(call.model, call.include) # {}) =>
        /\ result.status = "raised"
        /\ result.err = "HTTPException(422)"
        /\ result.detail =
              FirstBad(call.model,
                       call.include[FirstBadPath(call.model, call.include)]).seg
        /\ result.q = <<>>

\* C14, amended: the same for a request that has no "*" path; with a "*"
\* in the request no path is resolved, nothing is raised and the query gets
\* the wildcard option alone.
C14_BadSegmentRaisesUnlessWildcard ==
    /\ (call.fn = "includes" /\ result # Pending
           /\ ~HasWildcard(call.include)
           /\ BadPaths(call.model, call.include) # {}) =>
          /\ result.status = "raised"
          /\ result.err = "HTTPException(422)"
          /\ result.detail =
                FirstBad(call.model,
                         call.include[FirstBadPath(call.model, call.include)]).seg
          /\ result.q = <<>>
    /\ (call.fn = "includes" /\ result # Pending /\ HasWildcard(call.include)) =>
          /\ result.status = "ok"
          /\ Len(result.q) = 1
          /\ PathOf(result.q[1].load) = Wildcard

\* The second segment of the second path is no relationship of Message.
C14_Witness ==
    /\ call.fn = "includes" /\ result.status = "raised"
    /\ call.model = "Post"
    /\ call.include = <<<<"messages">>, <<"messages", "nope">>>>
    /\ result.detail = "nope"

\* The filters and the sort tokens with every key replaced by the
\* snake-case name it converts to.
SnakeFilters(filters) ==
    [i \in 1..Len(filters) |-> [key |-> underscore(filters[i].key), val |-> filters[i].val]]

SnakeToken(token) ==
    CASE token = "jsonOrder[k]" -> "json_order[k]"
      [] token = "jsonField" -> "json_field"
      [] token = "-jsonField" -> "-json_field"
      [] OTHER -> token

SnakeTokens(tokens) == [i \in 1..Len(tokens) |-> SnakeToken(tokens[i])]

\* C21: a filter or sort key written in camel case has the same effect on
\* the query as the snake-case name it converts to: a query_by or sort call
\* returns the query the same call returns with every key in snake case.
C21_CamelSameAsSnake ==
    /\ (call # NoCall /\ call.fn = "query_by" /\ result # Pending) =>
           result = Outcome(NoDetail(query_by(call.model, <<>>,
                                              SnakeFilters(call.filters), call.use_like)))
    /\ (call # NoCall /\ call.fn = "sort" /\ result # Pending) =>
           result = Outcome([err |-> "", detail |-> "",
                             q |-> sort(call.model, <<>>, SnakeTokens(call.tokens))])

\* The same for the sort keys alone.
C21_SortKeys ==
    (call # NoCall /\ call.fn = "sort" /\ result # Pending) =>
        result = Outcome([err |-> "", detail |-> "",
                          q |-> sort(call.model, <<>>, SnakeTokens(call.tokens))])

\* The same for the filter keys that name no declared-queryable column in
\* camel case.
C21_ScopeKeys ==
    (call # NoCall /\ call.fn = "query_by" /\ result # Pending
       /\ \A i \in 1..Len(call.filters) : call.filters[i].key # "jsonField") =>
        result = Outcome(NoDetail(query_by(call.model, <<>>,
                                           SnakeFilters(call.filters), call.use_like)))

\* C20: query_by on a query of the polymorphic base with a key that names a
\* queryable column of one of its subtypes filters on that column of that
\* subtype with the value.
C20_SubtypeColumnFilters ==
    (call.fn = "query_by" /\ result # Pending /\ call.model = "Poly") =>
        \A i \in 1..Len(call.filters) :
            \A sub \in {"PolyA", "PolyB"} :
                (/\ call.filters[i].key \in __queryable__[sub].keys
                 /\ call.filters[i].key \in DOMAIN Columns[sub]
                 /\ call.filters[i].key \notin DOMAIN Columns["Poly"]) =>
                    \E p \in 1..Len(result.q) :
                        /\ result.status = "ok"
                        /\ result.q[p].op = "filter"
                        /\ result.q[p].owner = sub
                        /\ result.q[p].key = call.filters[i].key
                        /\ result.q[p].val = call.filters[i].val

----------------------------------------------------------------------------
\* Pagination (fastapi_solo/utils/pagination.py).

MaxCount == 10     \* rows counted, items of a list
MaxSize == 4       \* page size
MaxPage == 5       \* page asked for

\* FastapiSoloConfig.pagination_size
pagination_size == 20

\* size is None: the configured page size is used.
SizeOrDefault(size) == IF size = None THEN Num(pagination_size) ELSE size

\* data[index_from:index_to], positions counted from 0; a bound beyond the
\* end of the list is the end of the list.
Slice(data, index_from, index_to) ==
    LET lo == IF index_from < Len(data) THEN index_from ELSE Len(data)
        hi == IF index_to < Len(data) THEN index_to ELSE Len(data)
    IN [i \in 1..(IF hi > lo THEN hi - lo ELSE 0) |-> data[lo + i]]

\* paginate_result that counts one page more when count is a multiple of size.
PaginateResultNoDecrement(rows, count, page, size) ==
    IF SizeOrDefault(size) = All
    THEN [data |-> rows]
    ELSE LET total_pages == (count \div SizeOrDefault(size).n) + 1
         IN [data |-> rows,
             meta |-> [total |-> count,
                       pageSize |-> SizeOrDefault(size).n,
                       totalPages |-> total_pages,
                       currentPage |-> page,
                       nextPage |-> IF page < total_pages THEN Num(page + 1) ELSE None,
                       previousPage |-> IF page > 1 THEN Num(page - 1) ELSE None]]

\* paginate_result
paginate_result(rows, count, page, size) ==
    IF SizeOrDefault(size) = All
    THEN [data |-> rows]
    ELSE LET quotient_plus_one == (count \div SizeOrDefault(size).n) + 1
             total_pages == IF count % SizeOrDefault(size).n = 0
                            THEN quotient_plus_one - 1
                            ELSE quotient_plus_one
         IN [data |-> rows,
             meta |-> [total |-> count,
                       pageSize |-> SizeOrDefault(size).n,
                       totalPages |-> total_pages,
                       currentPage |-> page,
                       nextPage |-> IF page < total_pages THEN Num(page + 1) ELSE None,
                       previousPage |-> IF page > 1 THEN Num(page - 1) ELSE None]]

\* paginate_list
paginate_list(data, page, size) ==
    IF SizeOrDefault(size) = All
    THEN [data |-> data]
    ELSE paginate_result(Slice(data, (page - 1) * SizeOrDefault(size).n,
                               page * SizeOrDefault(size).n),
                         Len(data), page, SizeOrDefault(size))

\* The item at position k (from 0) of the lists paginated.
Item(k) == 100 + k
ListOf(n) == [i \in 1..n |-> Item(i - 1)]

Sizes == {Num(n) : n \in 1..MaxSize} \cup {None, All}

\* paginate_result is given the rows of the page and the count of all rows.
PaginateResultCalls ==
    {[fn |-> "paginate_result", rows |-> ListOf(n), count |-> c, page |-> p, size |-> sz] :
        n \in {0, 1}, c \in 0..MaxCount, p \in 1..MaxPage, sz \in Sizes}

PaginateListCalls ==
    {[fn |-> "paginate_list", data |-> ListOf(n), page |-> p, size |-> sz] :
        n \in 0..MaxCount, p \in 1..MaxPage, sz \in Sizes}

PageInit ==
    /\ TxIdle
    /\ DataIdle
    /\ SchemaIdle
    /\ call \in PaginateResultCalls \cup PaginateListCalls
    /\ result = Pending

\* paginate_result(result, count, page, size)
CallPaginateResult ==
    /\ call.fn = "paginate_result" /\ result = Pending
    /\ result' = [status |-> "ok",
                  value |-> paginate_result(call.rows, call.count, call.page, call.size)]
    /\ UNCHANGED <<call, txVars, schemaVars, dataVars, injectVars>>

\* paginate_list(data, page, size)
CallPaginateList ==
    /\ call.fn = "paginate_list" /\ result = Pending
    /\ result' = [status |-> "ok",
                  value |-> paginate_list(call.data, call.page, call.size)]
    /\ UNCHANGED <<call, txVars, schemaVars, dataVars, injectVars>>

PageNext ==
    \/ CallPaginateResult
    \/ CallPaginateList

PageSpec == PageInit /\ [][PageNext]_vars

\* The count a call paginates over and the page size it is made with.
CountOf(c) == IF c.fn = "paginate_list" THEN Len(c.data) ELSE c.count
HasIntSize(c) == c.size # All /\ c.size # None

\* C18: for an integer size, meta has totalPages = floor(count/size) plus one
\* when count is not a multiple of size, nextPage = page + 1 below the last
\* page and none from it on, previousPage = page - 1 after the first page
\* and none on it (for 10 rows by 3: page 1 has next 2 and no previous,
\* page 4 no next and previous 3, page 5 no next and previous 4);
\* paginate_list returns the items at positions (page-1)*size .. page*size-1
\* of the list; with size "all" there is no meta and data is the whole list.
C18_PaginationMeta ==
    (call.fn \in {"paginate_result", "paginate_list"} /\ result.status = "ok") =>
        LET v == result.value
            count == CountOf(call)
            page == call.page
        IN /\ HasIntSize(call) =>
                LET size == call.size.n
                    first == (page - 1) * size
                    after == page * size
                IN /\ DOMAIN v = {"data", "meta"}
                   /\ v.meta.total = count
                   /\ v.meta.pageSize = size
                   /\ v.meta.currentPage = page
                   /\ v.meta.totalPages =
                         (count \div size) + (IF count % size # 0 THEN 1 ELSE 0)
                   /\ v.meta.totalPages * size >= count
                   /\ (v.meta.totalPages - 1) * size < count \/ count = 0
                   /\ count = 0 => v.meta.totalPages = 0
                   /\ v.meta.nextPage =
                         (IF page < v.meta.totalPages THEN Num(page + 1) ELSE None)
                   /\ v.meta.nextPage = None <=> page * size >= count
                   /\ v.meta.previousPage = (IF page = 1 THEN None ELSE Num(page - 1))
                   /\ (count = 10 /\ size = 3) =>
                         /\ v.meta.totalPages = 4
                         /\ page = 1 => v.meta.nextPage = Num(2) /\ v.meta.previousPage = None
                         /\ page = 4 => v.meta.nextPage = None /\ v.meta.previousPage = Num(3)
                         /\ page = 5 => v.meta.nextPage = None /\ v.meta.previousPage = Num(4)
                   /\ call.fn = "paginate_list" =>
                         /\ \A k \in 0..(count - 1) :
                               (first <= k /\ k < after) =>
                                   /\ k - first + 1 \in DOMAIN v.data
                                   /\ v.data[k - first + 1] = Item(k)
                         /\ Len(v.data) =
                               Cardinality({k \in 0..(count - 1) : first <= k /\ k < after})
                   /\ call.fn = "paginate_result" => v.data = call.rows
           /\ call.size = All =>
                /\ DOMAIN v = {"data"}
                /\ v.data = (IF call.fn = "paginate_list" THEN call.data ELSE call.rows)

\* Page 5 of a list of 10 items by 3: no item, no next page, previous page 4.
C18_Witness ==
    /\ call.fn = "paginate_list" /\ result.status = "ok"
    /\ Len(call.data) = 10 /\ call.size = Num(3) /\ call.page = 5
    /\ result.value.data = <<>>
    /\ result.value.meta.totalPages = 4
    /\ result.value.meta.nextPage = None
    /\ result.value.meta.previousPage = Num(4)

----------------------------------------------------------------------------
\* Relationships given as lists of ids (fastapi_solo/db/database.py:
\* _Base.create, _Base.save, _decode_field), on Message.tags of
\* tests/mock/models.py.
\*
\* The database is the set of Tag ids and the Message rows flushed so far.

MaxTags == 2       \* Tag rows
MaxIds == 3        \* ids in the list given for the relationship

TagIds == 1..MaxTags
\* The ids a caller may give: those of Tag rows and one of no row.
GivenIds == 1..(MaxTags + 1)

Http400 == "HTTPException(400)"

\* db.exec(select(rel_model).filter(pk.in_(value))).all(): the rows whose
\* primary key is among the values, each row once.
SelectIn(table, value) == {r \in table : \E i \in 1..Len(value) : value[i] = r}

\* _decode_field for a list of ids: on a relationship attribute the ids are
\* replaced by the rows found, unless fewer rows are found than ids given;
\* an empty list is returned as it is.
_decode_field(cls, db, key, value) ==
    IF Len(value) > 0 /\ key \in DOMAIN Relationships[cls]
    THEN IF Cardinality(SelectIn(db.tags, value)) # Len(value)
         THEN [err |-> Http400, value |-> {}]
         ELSE [err |-> "", value |-> SelectIn(db.tags, value)]
    ELSE [err |-> "", value |-> {value[i] : i \in 1..Len(value)}]

\* The rest of create once the field is decoded: cls(**obj), save(db).
CreateDecoded(db, d) ==
    IF d.err # ""
    THEN [status |-> "raised", err |-> d.err, db |-> db]
    ELSE [status |-> "ok", err |-> "",
          db |-> [db EXCEPT !.messages = Append(@, [tags |-> d.value])]]

\* _Base.create: Message.create(db, tags=ids)
create(db, ids) == CreateDecoded(db, _decode_field("Message", db, "tags", ids))

\* The rest of save once the field is decoded: setattr, db.add, db.flush.
SaveDecoded(db, row, d) ==
    IF d.err # ""
    THEN [status |-> "raised", err |-> d.err, db |-> db]
    ELSE [status |-> "ok", err |-> "",
          db |-> [db EXCEPT !.messages[row].tags = d.value]]

\* _Base.save: message.save(update={"tags": ids}) on the row flushed before.
save(db, row, ids) ==
    SaveDecoded(db, row, _decode_field("Message", db, "tags", ids))

IdLists == SeqsUpTo(GivenIds, MaxIds)

\* The databases the calls are made on: some Tag rows and at most one
\* Message row, related to some of them.
Databases ==
    {[tags |-> ts, messages |-> ms] :
        ts \in SUBSET TagIds,
        ms \in {<<>>} \cup {<<[tags |-> old]>> : old \in SUBSET TagIds}}

CreateCalls ==
    {[fn |-> "create", db |-> db, ids |-> ids] :
        db \in {d \in Databases : d.messages = <<>>}, ids \in IdLists}

SaveCalls ==
    {[fn |-> "save", db |-> db, row |-> 1, ids |-> ids] :
        db \in {d \in Databases : Len(d.messages) = 1 /\ d.messages[1].tags \subseteq d.tags},
        ids \in IdLists}

RelInit ==
    /\ TxIdle
    /\ DataIdle
    /\ SchemaIdle
    /\ call \in CreateCalls \cup SaveCalls
    /\ result = Pending

\* Message.create(db, tags=ids)
CallCreate ==
    /\ call.fn = "create" /\ result = Pending
    /\ result' = create(call.db, call.ids)
    /\ UNCHANGED <<call, txVars, schemaVars, dataVars, injectVars>>

\* message.save(update={"tags": ids})
CallSave ==
    /\ call.fn = "save" /\ result = Pending
    /\ result' = save(call.db, call.row, call.ids)
    /\ UNCHANGED <<call, txVars, schemaVars, dataVars, injectVars>>

RelNext ==
    \/ CallCreate
    \/ CallSave

RelSpec == RelInit /\ [][RelNext]_vars

\* Every id of the list is the id of a Tag row.
AllResolve(c) == \A i \in 1..Len(c.ids) : c.ids[i] \in c.db.tags

\* The Message row the call created or updated.
RowOf(c, r) == r.db.messages[IF c.fn = "create" THEN Len(r.db.messages) ELSE c.row]

\* C19: given a non-empty list of ids for the relationship, create and
\* save(update=...) succeed exactly when every id is that of an existing
\* row, and the relationship is then those rows; otherwise an HTTP error is
\* raised and no row is added and no relationship changed.
C19_SucceedsIffAllResolve ==
    (call.fn \in {"create", "save"} /\ result # Pending /\ Len(call.ids) > 0) =>
        /\ result.status = "ok" <=> AllResolve(call)
        /\ result.status = "ok" =>
              RowOf(call, result).tags = {call.ids[i] : i \in 1..Len(call.ids)}
        /\ result.status # "ok" =>
              /\ result.err = Http400
              /\ result.db = call.db

----------------------------------------------------------------------------
\* Schema generation (fastapi_solo/serialization/schema_models.py).
\*
\* A SymList is written as a record: a dict is the sequence of its items in
\* insertion order, a set, list or tuple the sequence of its elements in
\* iteration order; True, a type and a string are leaves.

True == [form |-> "true", s |-> "", items |-> <<>>]
Type(t) == [form |-> "type", s |-> t, items |-> <<>>]
Str(k) == [form |-> "str", s |-> k, items |-> <<>>]
Dict(items) == [form |-> "dict", s |-> "", items |-> items]
SymSet(items) == [form |-> "set", s |-> "", items |-> items]
SymList(items) == [form |-> "list", s |-> "", items |-> items]
SymTuple(items) == [form |-> "tuple", s |-> "", items |-> items]
EmptyDict == Dict(<<>>)

\* isinstance(v, (set, tuple, list, dict))
IsCollection(v) == v.form \in {"dict", "set", "tuple", "list"}

\* bool(v): an empty collection is falsy.
Truthy(v) == IF IsCollection(v) THEN v.items # <<>> ELSE TRUE

\* k in d, d[k] and d[k] = v on a dict: a key that is present keeps its place.
HasKey(d, k) == \E i \in 1..Len(d.items) : d.items[i].k = k
Get(d, k) == d.items[CHOOSE i \in 1..Len(d.items) : d.items[i].k = k].v
SetItem(d, k, v) ==
    IF HasKey(d, k)
    THEN Dict([i \in 1..Len(d.items) |->
                  IF d.items[i].k = k THEN [k |-> k, v |-> v] ELSE d.items[i]])
    ELSE Dict(Append(d.items, [k |-> k, v |-> v]))
Keys(d) == {d.items[i].k : i \in 1..Len(d.items)}

\* base.update(d), from item i of d on.
RECURSIVE DictUpdate(_, _, _)
DictUpdate(base, d, i) ==
    IF i > Len(d.items)
    THEN base
    ELSE DictUpdate(SetItem(base, d.items[i].k, d.items[i].v), d, i + 1)

RECURSIVE _normalize_sym_list(_)
RECURSIVE FlattenFrom(_, _, _)

\* The loop of _flatten_sym_list from element i on.
FlattenFrom(sym_list, i, base) ==
    IF i > Len(sym_list.items)
    THEN base
    ELSE FlattenFrom(sym_list, i + 1,
                     IF sym_list.items[i].form = "str"
                     THEN SetItem(base, sym_list.items[i].s, True)
                     ELSE DictUpdate(base, _normalize_sym_list(sym_list.items[i]), 1))

\* _flatten_sym_list
_flatten_sym_list(sym_list) == FlattenFrom(sym_list, 1, EmptyDict)

\* _normalize_sym_list
_normalize_sym_list(sym_list) ==
    IF sym_list.form = "dict"
    THEN Dict([i \in 1..Len(sym_list.items) |->
                  [k |-> sym_list.items[i].k,
                   v |-> IF IsCollection(sym_list.items[i].v)
                         THEN _normalize_sym_list(sym_list.items[i].v)
                         ELSE sym_list.items[i].v]])
    ELSE IF sym_list.form \in {"set", "tuple", "list"}
    THEN _flatten_sym_list(sym_list)
    ELSE sym_list

\* The names used as keys, in the order of sorted().
KeyOrder ==
    <<"bio", "created_at", "display_name", "extra_field", "id", "messages",
      "name", "password_hash", "post", "post_id", "profile", "tags", "text",
      "title", "updated_at", "user", "user_id">>

\* sorted(e)
sorted(e) == SelectSeq(KeyOrder, LAMBDA k : HasKey(e, k))

RECURSIVE _qs_dict(_)
RECURSIVE QsJoin(_, _, _)

\* ",".join(a) for the keys from position i on.
QsJoin(e, keys, i) ==
    IF i > Len(keys)
    THEN ""
    ELSE (IF i > 1 THEN "," ELSE "")
         \o (IF IsCollection(Get(e, keys[i]))
             THEN keys[i] \o "[" \o _qs_dict(Get(e, keys[i])) \o "]"
             ELSE keys[i])
         \o QsJoin(e, keys, i + 1)

\* _qs_dict
_qs_dict(e) == QsJoin(e, sorted(e), 1)

\* md5(enc.encode()).hexdigest()[:8]: the digest stands for the text it is
\* taken of (two texts with one digest are not represented).
hexdigest(enc) == enc

\* _qs: the cache key of a model and a normalised spec.
_qs(model, sp) ==
    model \o "$" \o hexdigest(
        (IF Truthy(sp.exclude) THEN "-(" \o _qs_dict(sp.exclude) \o ")" ELSE "")
        \o (IF Truthy(sp.include) THEN "+(" \o _qs_dict(sp.include) \o ")" ELSE "")
        \o (IF Truthy(sp.relationships)
            THEN "&(" \o _qs_dict(sp.relationships) \o ")" ELSE "")
        \o (IF Truthy(sp.extras) THEN "!(" \o _qs_dict(sp.extras) \o ")" ELSE "")
        \o (IF sp.all_optional THEN "?" ELSE "")
        \o (IF sp.include_virtuals THEN "*" ELSE "")
        \o (IF ~sp.use_dynamic_relationships THEN "!" ELSE ""))

\* The classes schemas are generated for.
SchemaModels == {"Post", "Tag", "Message", "User", "Profile"}

\* mapper.relationships.keys() of each class, in declaration order.
RelationshipKeys ==
    [Post |-> <<"messages">>, Tag |-> <<"messages">>, Message |-> <<"post", "tags">>,
     User |-> <<"profile">>, Profile |-> <<"user">>]

\* The columns that are nullable or have a default.
OptionalColumns ==
    [Post |-> {"rating", "json_field"}, Tag |-> {}, Message |-> {},
     User |-> {}, Profile |-> {}]

\* The properties of each class (the attributes of dir(model) that are a
\* property or a BinaryExpression).
Virtuals ==
    [Post |-> {}, Tag |-> {}, Message |-> {}, User |-> {"display_name"}, Profile |-> {}]

\* get_single_pk(model).name
PrimaryKey(model) == "id"

\* "password" in column.name, for the column names above.
ContainsPassword(name) == name \in {"password_hash"}

\* A spec as _generate_schema receives it.
BlankSpec ==
    [exclude |-> EmptyDict, include |-> EmptyDict, relationships |-> EmptyDict,
     extras |-> EmptyDict, all_optional |-> TRUE, include_virtuals |-> TRUE,
     use_dynamic_relationships |-> TRUE, lazy_first_level |-> "None",
     base_name |-> ""]

\* FastapiSoloConfig.include_first_level_relationships
include_first_level_relationships == FALSE

\* _build_fields that keeps the columns named "password".
BuildFieldsKeepPassword(model, exclude, include, all_optional) ==
    {[name |-> c, type |-> Columns[model][c],
      optional |-> all_optional \/ c \in OptionalColumns[model]] :
        c \in {c \in DOMAIN Columns[model] :
                  /\ ~HasKey(exclude, c)
                  /\ Truthy(include) => HasKey(include, c)}}

\* _build_fields: the fields made of the columns.
_build_fields(model, exclude, include, all_optional) ==
    {[name |-> c, type |-> Columns[model][c],
      optional |-> all_optional \/ c \in OptionalColumns[model]] :
        c \in {c \in DOMAIN Columns[model] :
                  /\ ~HasKey(exclude, c)
                  /\ Truthy(include) => HasKey(include, c)
                  /\ ~(ContainsPassword(c) /\ ~HasKey(include, c))}}

\* _build_virtual_fields: the fields made of the properties.
_build_virtual_fields(model, exclude, include) ==
    {[name |-> p, type |-> "Any", optional |-> TRUE] :
        p \in {p \in Virtuals[model] :
                  /\ ~HasKey(exclude, p)
                  /\ Truthy(include) => HasKey(include, p)}}

\* The fields made of the extras that are not a dict.
ExtraFields(extras, all_optional) ==
    {[name |-> extras.items[i].k,
      type |-> IF extras.items[i].v.form = "type"
               THEN extras.items[i].v.s
               ELSE extras.items[i].v.form,
      optional |-> all_optional] :
        i \in {i \in 1..Len(extras.items) : extras.items[i].v.form # "dict"}}

\* d.get(k, {})
GetOrEmpty(d, k) == IF HasKey(d, k) THEN Get(d, k) ELSE EmptyDict

\* The spec _build_relationship passes on for the schema of rel_key: the
\* slices e, i, r, x of exclude, include, relationships, extras.
NestedSpec(sp, rel_key) ==
    [BlankSpec EXCEPT
        !.exclude = IF Truthy(sp.exclude) THEN GetOrEmpty(sp.exclude, rel_key)
                    ELSE EmptyDict,
        !.include = IF Truthy(sp.include) THEN GetOrEmpty(sp.include, rel_key)
                    ELSE EmptyDict,
        !.relationships = IF IsCollection(Get(sp.relationships, rel_key))
                          THEN Get(sp.relationships, rel_key) ELSE EmptyDict,
        !.extras = IF HasKey(sp.extras, rel_key) /\ Get(sp.extras, rel_key).form = "dict"
                      /\ Truthy(Get(sp.extras, rel_key))
                   THEN Get(sp.extras, rel_key) ELSE EmptyDict,
        !.all_optional = sp.all_optional,
        !.include_virtuals = sp.include_virtuals]

\* {k: v for k, v in include.items() if isinstance(v, (dict, set, tuple, list))}
CollectionItems(d) == Dict(SelectSeq(d.items, LAMBDA it : IsCollection(it.v)))

\* What generation has done so far: the cache and the number of create_model
\* calls.
State(cache, n) == [cache |-> cache, n |-> n]

NoSchema == [oid |-> 0]

\* lazy_first_level as _generate_schema uses it.
IsLazy(sp) ==
    IF sp.lazy_first_level = "None"
    THEN ~include_first_level_relationships
    ELSE sp.lazy_first_level = "True"

\* The field names of a call of create_model that are given twice.
Repeated(fields, rel_fields, extras) ==
    {n \in {f.name : f \in fields} :
        \/ \E i \in 1..Len(rel_fields) : rel_fields[i].k = n
        \/ \E x \in extras : x.name = n}
    \cup {x.name : x \in {x \in extras : \E i \in 1..Len(rel_fields) : rel_fields[i].k = x.name}}

RECURSIVE _generate_schema(_, _, _)
RECURSIVE _custom_schema(_, _, _, _)
RECURSIVE BuildRelsFrom(_, _, _, _, _)
RECURSIVE RelBuilt(_, _, _, _, _)

\* create_model at the end of _custom_schema, once the relationships are
\* built: a name given twice among the keyword arguments is a TypeError.
CreateModel(rb, model, sp, name, fields, extras) ==
    IF rb.err # ""
    THEN [st |-> rb.st, err |-> rb.err, schema |-> NoSchema]
    ELSE IF Repeated(fields, rb.rel_fields, extras) # {}
    THEN [st |-> rb.st, err |-> "TypeError", schema |-> NoSchema]
    ELSE [st |-> State(rb.st.cache, rb.st.n + 1),
          err |-> "",
          schema |-> [oid |-> rb.st.n + 1,
                      model |-> model,
                      name |-> IF sp.base_name # "" THEN sp.base_name ELSE name,
                      fields |-> fields \cup extras,
                      rel_fields |-> rb.rel_fields]]

\* The fields of the columns and, with include_virtuals, of the properties.
ColumnAndVirtualFields(model, sp) ==
    _build_fields(model, sp.exclude, sp.include, sp.all_optional)
    \cup (IF sp.include_virtuals
          THEN _build_virtual_fields(model, sp.exclude, sp.include)
          ELSE {})

\* _custom_schema: the fields, then one _build_relationship for each key of
\* relationships, then create_model.
_custom_schema(st, model, sp, name) ==
    CreateModel(BuildRelsFrom(st, model, sp, 1, <<>>), model, sp, name,
                ColumnAndVirtualFields(model, sp),
                ExtraFields(sp.extras, sp.all_optional))

\* The loop `for rel_key in relationships` of _custom_schema from key i on;
\* _build_relationship returns at once for a key that is no relationship.
BuildRelsFrom(st, model, sp, i, rel_fields) ==
    IF i > Len(sp.relationships.items)
    THEN [st |-> st, err |-> "", rel_fields |-> rel_fields]
    ELSE IF sp.relationships.items[i].k \notin DOMAIN Relationships[model]
    THEN BuildRelsFrom(st, model, sp, i + 1, rel_fields)
    ELSE RelBuilt(_generate_schema(st,
                                   Relationships[model][sp.relationships.items[i].k].target,
                                   NestedSpec(sp, sp.relationships.items[i].k)),
                  model, sp, i, rel_fields)

\* The end of _build_relationship: the field of the relationship.
RelBuilt(g, model, sp, i, rel_fields) ==
    IF g.err # ""
    THEN [st |-> g.st, err |-> g.err, rel_fields |-> rel_fields]
    ELSE BuildRelsFrom(g.st, model, sp, i + 1,
                       Append(rel_fields,
                              [k |-> sp.relationships.items[i].k,
                               many |-> Relationships[model][sp.relationships.items[i].k].uselist,
                               dynamic |-> sp.use_dynamic_relationships,
                               schema |-> g.schema]))

\* __schema_cache[name] = schema, and what _generate_schema returns.
Stored(c, name, lazy) ==
    IF c.err # ""
    THEN [st |-> c.st, err |-> c.err, name |-> name, schema |-> NoSchema, lazy |-> lazy]
    ELSE [st |-> State((name :> c.schema) @@ c.st.cache, c.st.n),
          err |-> "", name |-> name, schema |-> c.schema, lazy |-> lazy]

\* _generate_schema from the cache lookup on.
Lookup(st, model, sp, name) ==
    IF name \in DOMAIN st.cache
    THEN [st |-> st, err |-> "", name |-> name, schema |-> st.cache[name],
          lazy |-> IsLazy(sp)]
    ELSE Stored(_custom_schema(st, model, sp, name), name, IsLazy(sp))

\* The relationships _generate_schema uses: those of include if there is one.
WithIncludeRelationships(sp) ==
    IF Truthy(sp.include)
    THEN [sp EXCEPT !.relationships = CollectionItems(sp.include)]
    ELSE sp

\* _generate_schema on the spec with its relationships settled; sorted() of
\* a spec that is no collection raises.
GenerateSettled(st, model, sp) ==
    IF ~IsCollection(sp.exclude)
    THEN [st |-> st, err |-> "TypeError", name |-> "", schema |-> NoSchema,
          lazy |-> IsLazy(sp)]
    ELSE Lookup(st, model, sp, _qs(model, sp))

\* _generate_schema
_generate_schema(st, model, sp) ==
    GenerateSettled(st, model, WithIncludeRelationships(sp))

\* An argument left out of a call: the default of the parameter is used.
Omitted == [form |-> "omitted", s |-> "", items |-> <<>>]
OrEmpty(v) == IF v = Omitted THEN EmptyDict ELSE v

\* The loop of _generic_schema over model.__mapper__.relationships.keys(),
\* from key i on: relationships[rel] = True for a key that is not there.
RECURSIVE AutoInclude(_, _, _)
AutoInclude(relationships, keys, i) ==
    IF i > Len(keys)
    THEN relationships
    ELSE AutoInclude(IF HasKey(relationships, keys[i])
                     THEN relationships
                     ELSE SetItem(relationships, keys[i], True),
                     keys, i + 1)

\* The relationships _generic_schema ends with, given the dict bound as the
\* default of the parameter.  _normalize_sym_list returns a dict as the
\* object it is, so a default dict is the one the loop of
\* auto_include_relationships writes to.
GenericRelationships(default, c) ==
    IF c.auto_include_relationships
    THEN AutoInclude(IF c.relationships = Omitted THEN default
                     ELSE _normalize_sym_list(c.relationships),
                     RelationshipKeys[c.model], 1)
    ELSE IF c.relationships = Omitted THEN default
    ELSE _normalize_sym_list(c.relationships)

\* The spec _generic_schema hands to _generate_schema.
GenericSpec(c, exclude, relationships) ==
    [exclude |-> exclude,
     include |-> _normalize_sym_list(OrEmpty(c.include)),
     relationships |-> relationships,
     extras |-> _normalize_sym_list(OrEmpty(c.extras)),
     all_optional |-> c.all_optional,
     include_virtuals |-> c.include_virtuals,
     use_dynamic_relationships |-> c.use_dynamic_relationships,
     lazy_first_level |-> c.lazy_first_level,
     base_name |-> ""]

\* _generic_schema: what _generate_schema returns, and the relationships
\* dict as the call leaves it.
_generic_schema(st, c, exclude, default) ==
    [g |-> _generate_schema(st, c.model,
                            GenericSpec(c, _normalize_sym_list(exclude),
                                        GenericRelationships(default, c))),
     relationships |-> GenericRelationships(default, c)]

\* What response_schema leaves: the default dict is the relationships dict
\* of the call when the argument was left out.
ResponseOutcome(r, defaults, c) ==
    [g |-> r.g,
     defaults |-> IF c.relationships = Omitted THEN r.relationships ELSE defaults]

\* response_schema
response_schema(st, defaults, c) ==
    ResponseOutcome(_generic_schema(st, c, OrEmpty(c.exclude), defaults), defaults, c)

\* {pk: True, "created_at": True, "updated_at": True, **exclude} of
\* request_schema; an exclude that is no dict is made one first.
RequestExclude(model, exclude) ==
    DictUpdate(Dict(<<[k |-> PrimaryKey(model), v |-> True],
                      [k |-> "created_at", v |-> True],
                      [k |-> "updated_at", v |-> True]>>),
               IF exclude.form = "dict"
               THEN exclude
               ELSE Dict([i \in 1..Len(exclude.items) |->
                             [k |-> exclude.items[i].s, v |-> True]]),
               1)

\* request_schema: no virtuals, no dynamic relationships, not lazy; the
\* default dict of its own parameter is never written to.
request_schema(st, defaults, c) ==
    [g |-> _generic_schema(st,
                           [c EXCEPT !.include_virtuals = FALSE,
                                     !.use_dynamic_relationships = FALSE,
                                     !.lazy_first_level = "False",
                                     !.auto_include_relationships = FALSE],
                           RequestExclude(c.model, OrEmpty(c.exclude)),
                           EmptyDict).g,
     defaults |-> defaults]

\* A call with every argument left out.
BlankCall ==
    [fn |-> "response_schema", model |-> "Post",
     exclude |-> Omitted, include |-> Omitted, relationships |-> Omitted,
     extras |-> Omitted, all_optional |-> TRUE, include_virtuals |-> TRUE,
     use_dynamic_relationships |-> TRUE, lazy_first_level |-> "None",
     auto_include_relationships |-> FALSE]

MaxCalls == 3      \* schema-generation calls made one after the other

KV(k, v) == [k |-> k, v |-> v]

\* Ways of writing relationships for Post: messages with its tags (the first
\* as in tests/spec/schema_test.py), messages with post and tags, messages.
PostRelationships ==
    {Dict(<<KV("messages", SymSet(<<Str("tags")>>))>>),
     Dict(<<KV("messages", Dict(<<KV("tags", True)>>))>>),
     SymList(<<Dict(<<KV("messages", SymTuple(<<Str("tags")>>))>>)>>),
     Dict(<<KV("messages", SymList(<<Str("tags"), Str("post")>>))>>),
     Dict(<<KV("messages", Dict(<<KV("post", True), KV("tags", True)>>))>>),
     SymSet(<<Str("messages")>>),
     Dict(<<KV("messages", True)>>)}

\* Ways of writing post and tags for Message, and id and title to exclude.
MessageRelationships ==
    {Dict(<<KV("post", True), KV("tags", True)>>),
     Dict(<<KV("tags", True), KV("post", True)>>),
     SymSet(<<Str("tags"), Str("post")>>)}

PostExcludes ==
    {SymSet(<<Str("title"), Str("id")>>),
     Dict(<<KV("id", True), KV("title", True)>>)}

\* The calls of response_schema made one after the other.
SchemaCalls ==
    {[BlankCall EXCEPT !.model = m] : m \in {"Post", "Tag", "Message"}}
    \cup {[BlankCall EXCEPT !.model = m, !.auto_include_relationships = TRUE] :
             m \in {"Post", "Tag"}}
    \cup {[BlankCall EXCEPT !.relationships = r] : r \in PostRelationships}
    \cup {[BlankCall EXCEPT !.exclude = e] : e \in PostExcludes}
    \cup {[BlankCall EXCEPT !.model = "Message", !.relationships = r] :
             r \in MessageRelationships}

SchemaInit ==
    /\ TxIdle
    /\ DataIdle
    /\ call = NoCall
    /\ result = NoResult
    /\ SchemaIdle

\* The call has returned r: the cache, the default dict and the log after it.
Record(c, r) ==
    /\ schema_cache' = r.g.st.cache
    /\ compiled' = r.g.st.n
    /\ default_relationships' = r.defaults
    /\ log' = Append(log, [call |-> c, err |-> r.g.err, name |-> r.g.name,
                           schema |-> r.g.schema, lazy |-> r.g.lazy,
                           compiled_before |-> compiled,
                           compiled_after |-> r.g.st.n])
    /\ UNCHANGED <<call, result, txVars, dataVars, injectVars, threads>>

\* response_schema(model, ...), from call to return
CallResponseSchema(c) ==
    /\ c.fn = "response_schema"
    /\ threads = <<>>
    /\ Record(c, response_schema(State(schema_cache, compiled), default_relationships, c))

\* request_schema(model, ...), from call to return
CallRequestSchema(c) ==
    /\ c.fn = "request_schema"
    /\ threads = <<>>
    /\ Record(c, request_schema(State(schema_cache, compiled), default_relationships, c))

SchemaNext ==
    \E c \in SchemaCalls : Len(log) < MaxCalls /\ CallResponseSchema(c)

SchemaSpec == SchemaInit /\ [][SchemaNext]_vars

\* The key paths of a spec as the caller wrote it; a key whose value is a
\* collection is followed by "[" and by the paths of the collection.
RECURSIVE Paths(_)
Paths(v) ==
    IF v.form = "dict"
    THEN UNION {IF IsCollection(v.items[i].v)
                THEN {<<v.items[i].k, "[">>}
                     \cup {<<v.items[i].k>> \o p : p \in Paths(v.items[i].v)}
                ELSE {<<v.items[i].k>>} : i \in 1..Len(v.items)}
    ELSE IF v.form \in {"set", "list", "tuple"}
    THEN UNION {IF v.items[i].form = "str"
                THEN {<<v.items[i].s>>}
                ELSE Paths(v.items[i]) : i \in 1..Len(v.items)}
    ELSE {}

\* Two calls for the same model with structurally equal specs.
SameSpec(c, d) ==
    /\ c.fn = d.fn /\ c.model = d.model
    /\ Paths(c.exclude) = Paths(d.exclude)
    /\ Paths(c.include) = Paths(d.include)
    /\ Paths(c.relationships) = Paths(d.relationships)
    /\ Paths(c.extras) = Paths(d.extras)
    /\ c.all_optional = d.all_optional
    /\ c.include_virtuals = d.include_virtuals
    /\ c.use_dynamic_relationships = d.use_dynamic_relationships
    /\ c.lazy_first_level = d.lazy_first_level
    /\ c.auto_include_relationships = d.auto_include_relationships

\* C15: two generation calls for the same model with structurally equal
\* specs compute the same cache key, the later one compiles nothing, and
\* both return the same compiled schema object.
C15_EqualSpecsShareSchema ==
    \A i, j \in 1..Len(log) :
        (i < j /\ SameSpec(log[i].call, log[j].call)
               /\ log[i].err = "" /\ log[j].err = "") =>
            /\ log[j].name = log[i].name
            /\ log[j].schema.oid = log[i].schema.oid
            /\ log[j].compiled_after = log[j].compiled_before

\* The same for two calls that pass their relationships.
C15_ExplicitSpecs ==
    \A i, j \in 1..Len(log) :
        (i < j /\ SameSpec(log[i].call, log[j].call)
               /\ log[i].call.relationships # Omitted
               /\ log[i].err = "" /\ log[j].err = "") =>
            /\ log[j].name = log[i].name
            /\ log[j].schema.oid = log[i].schema.oid
            /\ log[j].compiled_after = log[j].compiled_before

\* The calls made on User and Profile: the include, exclude and extras that
\* name the password column and those that do not, at the top level and
\* under the relationship.
PasswordExtra == Dict(<<KV("password_hash", Type("str"))>>)

UserCalls ==
    {[BlankCall EXCEPT !.fn = fn, !.model = "User", !.include = i, !.extras = x,
                       !.all_optional = o] :
        fn \in {"response_schema", "request_schema"},
        i \in {Omitted, SymSet(<<Str("name")>>), SymSet(<<Str("password_hash")>>)},
        x \in {Omitted, PasswordExtra},
        o \in BOOLEAN}
    \cup {[BlankCall EXCEPT !.model = "User", !.exclude = SymSet(<<Str("password_hash")>>)],
          [BlankCall EXCEPT !.model = "User", !.include_virtuals = FALSE],
          [BlankCall EXCEPT !.model = "User",
                            !.extras = Dict(<<KV("extra_field", Type("str"))>>)],
          [BlankCall EXCEPT !.model = "User",
                            !.extras = Dict(<<KV("extra_field", Type("int"))>>)]}

ProfileCalls ==
    {[BlankCall EXCEPT !.model = "Profile", !.relationships = SymSet(<<Str("user")>>),
                       !.extras = x, !.exclude = e] :
        x \in {Omitted, Dict(<<KV("user", PasswordExtra)>>)},
        e \in {Omitted, Dict(<<KV("user", SymSet(<<Str("name")>>))>>),
               Dict(<<KV("user", True)>>)}}
    \cup {[BlankCall EXCEPT !.model = "Profile", !.include = i, !.extras = x] :
             i \in {Dict(<<KV("bio", True), KV("user", SymSet(<<Str("name")>>))>>),
                    Dict(<<KV("user", SymSet(<<Str("password_hash")>>))>>)},
             x \in {Omitted, Dict(<<KV("user", PasswordExtra)>>)}}
    \cup {[BlankCall EXCEPT !.fn = fn, !.model = "Profile", !.all_optional = FALSE,
                            !.relationships =
                                Dict(<<KV("user", SymSet(<<Str("profile")>>))>>)] :
             fn \in {"response_schema", "request_schema"}}

MaxFieldCalls == 2   \* calls made one after the other on User and Profile

FieldNext ==
    \/ \E c \in UserCalls \cup ProfileCalls :
          Len(log) < MaxFieldCalls /\ CallResponseSchema(c)
    \/ \E c \in UserCalls \cup ProfileCalls :
          Len(log) < MaxFieldCalls /\ CallRequestSchema(c)

FieldSpec == SchemaInit /\ [][FieldNext]_vars

\* A schema and the schemas of its relationships, each with the path of
\* relationship keys that leads to it.
RECURSIVE Levels(_, _)
Levels(schema, path) ==
    {[path |-> path, schema |-> schema]}
    \cup UNION {Levels(schema.rel_fields[i].schema, Append(path, schema.rel_fields[i].k)) :
                   i \in 1..Len(schema.rel_fields)}

\* The fields of a schema that are columns named "password".
PasswordFields(schema) ==
    {f.name : f \in {f \in schema.fields :
                        f.name \in DOMAIN Columns[schema.model] /\ ContainsPassword(f.name)}}

\* C17 as stated: a password column is a field of a generated schema, at
\* the top level or under relationships, only if the include list of that
\* level names it.
C17_PasswordOnlyIfIncluded ==
    \A n \in 1..Len(log) :
        log[n].err = "" =>
            \A l \in Levels(log[n].schema, <<>>) :
                \A f \in PasswordFields(l.schema) :
                    Append(l.path, f) \in Paths(log[n].call.include)

\* C17, amended: only if the include list of that level names it or the
\* extras of that level declare a field of its name.
C17_PasswordOnlyIfNamed ==
    \A n \in 1..Len(log) :
        log[n].err = "" =>
            \A l \in Levels(log[n].schema, <<>>) :
                \A f \in PasswordFields(l.schema) :
                    \/ Append(l.path, f) \in Paths(log[n].call.include)
                    \/ Append(l.path, f) \in Paths(log[n].call.extras)

\* A response schema and a request schema were generated with
\* all_optional=False for Profile with its user, no include and no extras:
\* the schema of User is there with its name and without the password.
C17_Witness ==
    /\ Len(log) = 2
    /\ \A n \in 1..2 :
          /\ log[n].err = "" /\ log[n].call.model = "Profile"
          /\ ~log[n].call.all_optional
          /\ log[n].call.include = Omitted /\ log[n].call.extras = Omitted
          /\ \E l \in Levels(log[n].schema, <<>>) :
                /\ l.path = <<"user">>
                /\ l.schema.model = "User"
                /\ \E f \in l.schema.fields : f.name = "name" /\ ~f.optional
                /\ PasswordFields(l.schema) = {}
    /\ log[1].call.fn = "response_schema" /\ log[2].call.fn = "request_schema"

----------------------------------------------------------------------------
\* Concurrent schema generation: threads inside _generate_schema.  A thread
\* may be switched out between the lookup in the cache, the compilation and
\* the store; the generation of the schemas of the relationships, inside
\* _custom_schema, is taken in one step.

MaxThreads == 2    \* threads generating schemas at the same time

Threads == 1..MaxThreads

IdleThread ==
    [pc |-> "idle", call |-> BlankCall, sp |-> BlankSpec, name |-> "",
     schema |-> NoSchema, stored |-> FALSE, compiled_before |-> 0]

\* The calls the threads make.
ThreadCalls ==
    {[BlankCall EXCEPT !.model = m] : m \in {"Post", "Message"}}
    \cup {[BlankCall EXCEPT !.relationships = SymSet(<<Str("messages")>>)]}

ThreadInit ==
    /\ TxIdle
    /\ DataIdle
    /\ call = NoCall
    /\ result = NoResult
    /\ schema_cache = <<>>
    /\ compiled = 0
    /\ default_relationships = EmptyDict
    /\ log = <<>>
    /\ threads = [t \in Threads |-> IdleThread]

\* The thread, entered with the spec sp.
Entered(t, c, sp) ==
    [threads EXCEPT ![t] = [IdleThread EXCEPT !.pc = "get", !.call = c, !.sp = sp,
                                              !.name = _qs(c.model, sp),
                                              !.compiled_before = compiled]]

\* response_schema(...) down to the computation of the cache key in
\* _generate_schema.
EnterSchema(t) ==
    /\ threads[t].pc = "idle"
    /\ \E c \in ThreadCalls :
          threads' = Entered(t, c,
                             WithIncludeRelationships(
                                 GenericSpec(c, _normalize_sym_list(OrEmpty(c.exclude)),
                                             GenericRelationships(default_relationships, c))))
    /\ UNCHANGED <<call, result, txVars, dataVars, injectVars, schema_cache, compiled,
                   default_relationships, log>>

\* schema = __schema_cache.get(name)
CacheGet(t) ==
    /\ threads[t].pc = "get"
    /\ threads' = [threads EXCEPT ![t] =
                      IF threads[t].name \in DOMAIN schema_cache
                      THEN [@ EXCEPT !.pc = "return",
                                     !.schema = schema_cache[threads[t].name]]
                      ELSE [@ EXCEPT !.pc = "compile"]]
    /\ UNCHANGED <<call, result, txVars, dataVars, injectVars, schema_cache, compiled,
                   default_relationships, log>>

\* The thread and the cache once _custom_schema has returned c.
Compiled(t, c) ==
    /\ threads' = [threads EXCEPT ![t] =
                      IF c.err # ""
                      THEN [@ EXCEPT !.pc = "raised"]
                      ELSE [@ EXCEPT !.pc = "store", !.schema = c.schema]]
    /\ schema_cache' = c.st.cache
    /\ compiled' = c.st.n

\* if not schema: schema = _custom_schema(...)
Compile(t) ==
    /\ threads[t].pc = "compile"
    /\ Compiled(t, _custom_schema(State(schema_cache, compiled), threads[t].call.model,
                                  threads[t].sp, threads[t].name))
    /\ UNCHANGED <<call, result, txVars, dataVars, injectVars, default_relationships, log>>

\* __schema_cache[name] = schema
Store(t) ==
    /\ threads[t].pc = "store"
    /\ schema_cache' = (threads[t].name :> threads[t].schema) @@ schema_cache
    /\ threads' = [threads EXCEPT ![t] = [@ EXCEPT !.pc = "return", !.stored = TRUE]]
    /\ UNCHANGED <<call, result, txVars, dataVars, injectVars, compiled,
                   default_relationships, log>>

\* return schema (or Lazy[schema])
Return(t) ==
    /\ threads[t].pc = "return"
    /\ log' = Append(log, [call |-> threads[t].call, err |-> "",
                           name |-> threads[t].name, schema |-> threads[t].schema,
                           lazy |-> IsLazy(threads[t].sp),
                           compiled_before |-> threads[t].compiled_before,
                           compiled_after |-> compiled])
    /\ threads' = [threads EXCEPT ![t] = [@ EXCEPT !.pc = "done"]]
    /\ UNCHANGED <<call, result, txVars, dataVars, injectVars, schema_cache, compiled,
                   default_relationships>>

ThreadNext ==
    \E t \in Threads :
        \/ EnterSchema(t)
        \/ CacheGet(t)
        \/ Compile(t)
        \/ Store(t)
        \/ Return(t)

ThreadSpec == ThreadInit /\ [][ThreadNext]_vars

\* C16: the cache is append-only under every interleaving: the object a
\* thread has stored under a key, and the object a caller was given for a
\* key, is the object the cache holds under that key ever after, and the
\* callers that asked for the same key were given the same object.
C16_CacheAppendOnly ==
    /\ \A t \in DOMAIN threads :
          threads[t].stored =>
              /\ threads[t].name \in DOMAIN schema_cache
              /\ schema_cache[threads[t].name].oid = threads[t].schema.oid
    /\ \A n \in 1..Len(log) :
          log[n].err = "" =>
              /\ log[n].name \in DOMAIN schema_cache
              /\ schema_cache[log[n].name].oid = log[n].schema.oid
    /\ \A m, n \in 1..Len(log) :
          (log[m].err = "" /\ log[n].err = "" /\ log[m].name = log[n].name) =>
              log[m].schema.oid = log[n].schema.oid

----------------------------------------------------------------------------
\* AsyncTransaction (fastapi_solo/aio/database.py) over the same session.

\* AsyncSession.get_transaction(): the root transaction in progress, if any.
get_transaction(st) == IF Len(st) > 0 THEN 1 ELSE NoTx

\* AsyncTransaction._begin: the join is decided on get_transaction().
_abegin(st, nested) ==
    IF in_transaction(st)
    THEN IF nested
         THEN [err |-> NoExc, tx |-> Len(st) + 1, cat |-> "NESTED", st |-> begin_nested(st)]
         ELSE IF get_transaction(st) # NoTx /\ ~IsNested(get_transaction(st))
         THEN [err |-> NoExc, tx |-> get_transaction(st), cat |-> "REUSED", st |-> st]
         ELSE [err |-> Http500, tx |-> NoTx, cat |-> "NONE", st |-> st]
    ELSE [err |-> NoExc, tx |-> 1, cat |-> "ROOT", st |-> begin(st)]

\* AsyncTransaction.__aexit__
__aexit__(st, com, s, e) ==
    IF s.tx = NoTx \/ ~is_active(st, s.tx)
    THEN [calls |-> <<>>, ret |-> FALSE, st |-> st, com |-> com]
    ELSE IF s.force \/ e # NoExc
    THEN LET r == rollback(st, com, s.tx)
         IN [calls |-> <<"rollback">>, ret |-> FALSE, st |-> r.st, com |-> r.com]
    ELSE LET r == commit(st, com, s.tx)
         IN [calls |-> <<"commit">>, ret |-> TRUE, st |-> r.st, com |-> r.com]

\* C26: in every state of the session, and for every nested flag, the entry
\* of AsyncTransaction decides as the entry of Transaction does (new root,
\* join, savepoint or 500) and gets the same handle, and the exit of every
\* open scope decides as Transaction's exit does.
C26_AsyncSameProtocol ==
    phase = "run" =>
        /\ \A nested \in BOOLEAN : _abegin(txStack, nested) = _begin(txStack, nested)
        /\ \A i \in 1..Len(scopes) :
              __aexit__(txStack, committed, scopes[i], exc)
                  = __exit__(txStack, committed, scopes[i], exc)

\* The same while no savepoint is open.
C26_SameWithoutSavepoint ==
    (phase = "run" /\ Len(txStack) <= 1) =>
        /\ \A nested \in BOOLEAN : _abegin(txStack, nested) = _begin(txStack, nested)
        /\ \A i \in 1..Len(scopes) :
              __aexit__(txStack, committed, scopes[i], exc)
                  = __exit__(txStack, committed, scopes[i], exc)

\* C27: the outermost scope exits normally with the forced-rollback flag
\* unset: the exit reaches commit on an active handle and every row written
\* in the session and not rolled back since is durable after it.
C27_OutermostExitCommits ==
    (IsExit /\ last.idx = 1 /\ last.excIn = NoExc /\ ~last.force) =>
        /\ last.active
        /\ last.calls = <<"commit">>
        /\ last.visBefore \subseteq last.comAfter

\* The same for the bodies in which no scope joined the transaction of the
\* outermost scope and no force_commit / force_rollback was called: told by
\* the handle of the outermost scope being active still.
C27_ActiveHandleCommits ==
    (IsExit /\ last.idx = 1 /\ last.excIn = NoExc /\ ~last.force /\ last.active) =>
        /\ last.calls = <<"commit">>
        /\ last.visBefore \subseteq last.comAfter

\* The keys of the relationship fields of a schema.
RelKeys(schema) == {schema.rel_fields[i].k : i \in 1..Len(schema.rel_fields)}

\* C29: schema generation is a pure function of its arguments: the shared
\* default of the relationships parameter stays the empty dict, and two
\* calls with the same arguments produce schemas with the same fields and
\* the same relationships, whatever calls were made in between.
C29_GenerationIsPure ==
    /\ default_relationships = EmptyDict
    /\ \A i, j \in 1..Len(log) :
          (log[i].call = log[j].call /\ log[i].err = "" /\ log[j].err = "") =>
              /\ log[i].schema.fields = log[j].schema.fields
              /\ RelKeys(log[i].schema) = RelKeys(log[j].schema)

\* The second half alone: the same arguments, the same fields and
\* relationships.
C29_SameCallSameFields ==
    \A i, j \in 1..Len(log) :
        (log[i].call = log[j].call /\ log[i].err = "" /\ log[j].err = "") =>
            /\ log[i].schema.fields = log[j].schema.fields
            /\ RelKeys(log[i].schema) = RelKeys(log[j].schema)

\* A compiled schema without the identity of its classes: its fields (name,
\* type, optionality) and, for each relationship, the schema under it.
RECURSIVE Shape(_)
Shape(schema) ==
    [model |-> schema.model,
     fields |-> schema.fields,
     rels |-> [i \in 1..Len(schema.rel_fields) |->
                  [k |-> schema.rel_fields[i].k,
                   many |-> schema.rel_fields[i].many,
                   dynamic |-> schema.rel_fields[i].dynamic,
                   schema |-> Shape(schema.rel_fields[i].schema)]]]

\* The schema the call compiles when nothing was generated before it.
Fresh(c) ==
    IF c.fn = "response_schema"
    THEN response_schema(State(<<>>, 0), EmptyDict, c).g
    ELSE request_schema(State(<<>>, 0), EmptyDict, c).g

\* C30: a call answered from the cache returns a schema with the fields and
\* the nested schemas a fresh compile of its model and spec produces, and
\* two calls whose fresh compiles differ never share a cache key.
C30_CacheIsSound ==
    /\ \A n \in 1..Len(log) :
          (log[n].err = "" /\ log[n].compiled_after = log[n].compiled_before) =>
              Shape(log[n].schema) = Shape(Fresh(log[n].call).schema)
    /\ \A m, n \in 1..Len(log) :
          (log[m].err = "" /\ log[n].err = "" /\ log[m].name = log[n].name) =>
              Shape(Fresh(log[m].call).schema) = Shape(Fresh(log[n].call).schema)

\* The same for the calls that give no extras.
C30_SoundWithoutExtras ==
    /\ \A n \in 1..Len(log) :
          (log[n].err = "" /\ log[n].compiled_after = log[n].compiled_before
             /\ log[n].call.extras = Omitted) =>
              Shape(log[n].schema) = Shape(Fresh(log[n].call).schema)
    /\ \A m, n \in 1..Len(log) :
          (log[m].err = "" /\ log[n].err = "" /\ log[m].name = log[n].name
             /\ log[m].call.extras = Omitted /\ log[n].call.extras = Omitted) =>
              Shape(Fresh(log[m].call).schema) = Shape(Fresh(log[n].call).schema)

----------------------------------------------------------------------------
\* Session.find_or_create (fastapi_solo/db/database.py) on the posts table:
\* Post has the primary key id, the title and the rating, which defaults
\* to 0.  The session is made with autoflush=False: a query sees the rows
\* that were flushed, not the objects that were only added.

MaxPosts == 3      \* rows of the table and pending objects together

PostIds == 1..(MaxPosts - 1)
Titles == {"a", "b"}
Ratings == {4, 5}

\* _model.__mapper__.primary_key
primary_key == {"id"}

\* The keyword arguments of a call: the title, with or without the rating
\* or the id.
KwargsSets ==
    {[title |-> t] : t \in Titles}
    \cup {[title |-> t, rating |-> r] : t \in Titles, r \in Ratings}
    \cup {[id |-> i, title |-> t] : i \in PostIds, t \in Titles}

\* find_by: None (the empty sequence here) or a list of fields of the kwargs.
FindBys(kw) == {<<>>} \cup {<<k>> : k \in DOMAIN kw \ primary_key}

FindOrCreateCalls ==
    UNION {{[fn |-> "find_or_create", find_by |-> fb, flush |-> fl, kwargs |-> kw] :
               fb \in FindBys(kw), fl \in BOOLEAN} : kw \in KwargsSets}

\* The fields find_or_create filters on.
Filters(find_by, kwargs) ==
    IF find_by # <<>>
    THEN {k \in DOMAIN kwargs : \E i \in 1..Len(find_by) : find_by[i] = k}
    ELSE IF primary_key \subseteq DOMAIN kwargs
    THEN primary_key
    ELSE DOMAIN kwargs

\* select(_model).filter_by(**filters) on the rows the database holds.
filter_by(rows, keys, kwargs) == {r \in rows : \A k \in keys : r[k] = kwargs[k]}

\* _model(**kwargs); id 0 stands for the id the INSERT will give, and the
\* rating left out is the default the INSERT gives.
NewPost(kwargs) ==
    [id |-> IF "id" \in DOMAIN kwargs THEN kwargs["id"] ELSE 0,
     title |-> kwargs["title"],
     rating |-> IF "rating" \in DOMAIN kwargs THEN kwargs["rating"] ELSE 0]

\* The largest id of the rows.
RECURSIVE MaxId(_)
MaxId(rows) ==
    IF rows = {}
    THEN 0
    ELSE LET r == CHOOSE r \in rows : \A o \in rows : o.id <= r.id
         IN r.id

\* Session.flush(): the pending objects are inserted in the order they were
\* added; an id that is taken already is an IntegrityError.
RECURSIVE FlushFrom(_, _, _)
FlushFrom(rows, new, i) ==
    IF i > Len(new)
    THEN [err |-> "", rows |-> rows, new |-> <<>>]
    ELSE IF new[i].id # 0 /\ \E r \in rows : r.id = new[i].id
    THEN [err |-> "IntegrityError", rows |-> rows, new |-> SubSeq(new, i, Len(new))]
    ELSE FlushFrom(rows \cup {IF new[i].id = 0
                              THEN [new[i] EXCEPT !.id = MaxId(rows) + 1]
                              ELSE new[i]},
                   new, i + 1)

\* The row a flushed object became: the one with its id, or the last one
\* inserted.
Inserted(f, obj) ==
    IF obj.id # 0 THEN obj ELSE [obj EXCEPT !.id = MaxId(f.rows)]

\* find_or_create once nothing was found: the object is added and, with
\* flush, the session flushed.
AddAndFlush(rows, new, do_flush, obj) ==
    IF do_flush
    THEN [err |-> FlushFrom(rows, Append(new, obj), 1).err,
          found |-> FALSE,
          ret |-> Inserted(FlushFrom(rows, Append(new, obj), 1), obj),
          rows |-> FlushFrom(rows, Append(new, obj), 1).rows,
          new |-> FlushFrom(rows, Append(new, obj), 1).new]
    ELSE [err |-> "", found |-> FALSE, ret |-> obj, rows |-> rows,
          new |-> Append(new, obj)]

\* Session.find_or_create
find_or_create(rows, new, find_by, do_flush, kwargs) ==
    IF Cardinality(filter_by(rows, Filters(find_by, kwargs), kwargs)) > 1
    THEN [err |-> "MultipleResultsFound", found |-> FALSE, ret |-> NewPost(kwargs),
          rows |-> rows, new |-> new]
    ELSE IF Cardinality(filter_by(rows, Filters(find_by, kwargs), kwargs)) = 1
    THEN [err |-> "", found |-> TRUE,
          ret |-> CHOOSE r \in filter_by(rows, Filters(find_by, kwargs), kwargs) : TRUE,
          rows |-> rows, new |-> new]
    ELSE AddAndFlush(rows, new, do_flush, NewPost(kwargs))

\* The tables a session starts on: none, one or two posts of one title.
InitialTables ==
    SUBSET {[id |-> 1, title |-> "a", rating |-> 5], [id |-> 2, title |-> "a", rating |-> 4]}

DataInit ==
    /\ TxIdle
    /\ SchemaIdle
    /\ call = NoCall
    /\ result = NoResult
    /\ posts_table \in InitialTables
    /\ session_new = <<>>
    /\ overrides = <<>>
    /\ events = <<>>
    /\ suspended = <<>>
    /\ raised = "none"

\* The call has returned or raised r.
Returned(c, r) ==
    /\ posts_table' = r.rows
    /\ session_new' = r.new
    /\ call' = [c EXCEPT !.fn = "find_or_create"] @@ [rows |-> posts_table, new |-> session_new]
    /\ result' = [err |-> r.err, found |-> r.found, ret |-> r.ret]

\* db.find_or_create(Post, find_by, flush, **kwargs)
CallFindOrCreate(c) ==
    /\ Cardinality(posts_table) + Len(session_new) < MaxPosts
    /\ Returned(c, find_or_create(posts_table, session_new, c.find_by, c.flush, c.kwargs))
    /\ UNCHANGED <<txVars, schemaVars, injectVars>>

DataNext == \E c \in FindOrCreateCalls : CallFindOrCreate(c)

DataSpec == DataInit /\ [][DataNext]_vars

\* The fields the lookup is made on: those of find_by when given, else the
\* primary key when the kwargs have it, else all the kwargs.
LookupKeys ==
    IF call.find_by # <<>>
    THEN {call.find_by[i] : i \in 1..Len(call.find_by)}
    ELSE IF "id" \in DOMAIN call.kwargs THEN {"id"} ELSE DOMAIN call.kwargs

Matches(r) == \A k \in LookupKeys : r[k] = call.kwargs[k]

\* The rows of the session that match the lookup: those of the table and
\* the objects added and not flushed.
CountMatching(rows, new) ==
    Cardinality({r \in rows : Matches(r)})
    + Cardinality({i \in 1..Len(new) : Matches(new[i])})

\* The call found the one row that matches, added one row made of all the
\* kwargs when none matched, and raised when several did.
FoundOrCreated ==
    /\ CountMatching(call.rows, <<>>) = 1 =>
          /\ result.err = "" /\ result.found
          /\ result.ret \in call.rows /\ Matches(result.ret)
          /\ posts_table = call.rows /\ session_new = call.new
    /\ (CountMatching(call.rows, <<>>) = 0 /\ result.err = "") =>
          /\ ~result.found
          /\ Cardinality(posts_table) + Len(session_new)
                = Cardinality(call.rows) + Len(call.new) + 1
          /\ call.rows \subseteq posts_table
          /\ \A k \in DOMAIN call.kwargs : result.ret[k] = call.kwargs[k]
          /\ \/ result.ret \in posts_table \ call.rows
             \/ session_new = Append(call.new, result.ret)
    /\ CountMatching(call.rows, <<>>) > 1 =>
          /\ result.err = "MultipleResultsFound"
          /\ posts_table = call.rows /\ session_new = call.new

\* C25: find_or_create returns the one row that matches the lookup, with no
\* row changed, adds exactly one row made of all the kwargs when none
\* matches and raises when several do; so a call made when at most one row
\* matches its lookup leaves exactly one row that matches it.
C25_FindOrCreate ==
    (call # NoCall /\ call.fn = "find_or_create") =>
        /\ FoundOrCreated
        /\ (CountMatching(call.rows, call.new) <= 1 /\ result.err = "") =>
              CountMatching(posts_table, session_new) = 1

\* The same for the calls made while the session has nothing to flush.
C25_WithNothingPending ==
    (call # NoCall /\ call.fn = "find_or_create" /\ call.new = <<>>) =>
        /\ FoundOrCreated
        /\ (CountMatching(call.rows, call.new) <= 1 /\ result.err = "") =>
              CountMatching(posts_table, session_new) = 1

\* The first half alone, whatever the session has to flush.
C25_FoundOrCreated ==
    (call # NoCall /\ call.fn = "find_or_create") => FoundOrCreated


\* ---------------------------------------------------------------------------
\* Dependency injection outside of routers: utils/inject.py and aio/inject.py
\* ---------------------------------------------------------------------------
\* The dependencies of tests/spec/inject_test.py: dep1 is a generator, dep2 a
\* generator that asks for dep1 twice, dep3 a function that asks for dep1 once
\* cached and once with use_cache=False.  fn and fn_no_cache are the wrapped
\* functions.
MaxInjectCalls == 2

Dep(d, use_cache) == [dep |-> d, use_cache |-> use_cache]

signature ==
    [dep1 |-> <<>>,
     dep2 |-> <<Dep("dep1", TRUE), Dep("dep1", TRUE)>>,
     dep3 |-> <<Dep("dep1", TRUE), Dep("dep1", FALSE)>>,
     fn |-> <<Dep("dep2", TRUE), Dep("dep1", TRUE)>>,
     fn_no_cache |-> <<Dep("dep3", TRUE), Dep("dep1", TRUE)>>]

\* What calling the function gives under injector and under async_injector
\* (an async generator, a coroutine, a plain generator or a plain result).
SyncKind ==
    [dep1 |-> "generator", dep2 |-> "generator", dep3 |-> "function",
     fn |-> "function", fn_no_cache |-> "function"]

AsyncKind ==
    [dep1 |-> "asyncgen", dep2 |-> "generator", dep3 |-> "coroutine",
     fn |-> "coroutine", fn_no_cache |-> "function"]

\* A wrapped function: injector(fn) or injector(fn, overrides=...), and the
\* same for async_injector.  given = "none" is overrides=None.
Wrappers ==
    [fn : {"fn", "fn_no_cache"}, mode : {"sync", "async"}, given : {"none", "empty", "dep1"}]

Value(d, id, k) == [dep |-> d, id |-> id, call |-> k]

NoValue == Value("", 0, 0)

Override(d) == Value(d, 0, 0)

\* The dict passed as overrides when the wrapper was made.
NoOverrides == [d \in {} |-> NoValue]

GivenOverrides(w) == IF w.given = "dep1" THEN ("dep1" :> Override("dep1")) ELSE NoOverrides

Event(ev, w, k, val, use_cache) ==
    [ev |-> ev, w |-> w, call |-> k, val |-> val, use_cache |-> use_cache]

Emit(e, ev, val, use_cache) ==
    [e EXCEPT !.events = Append(@, Event(ev, e.w, e.call, val, use_cache))]

\* Objects are numbered in the order in which the functions are called.
NextId(evs) == 1 + Cardinality({i \in DOMAIN evs : evs[i].ev = "init"})

NewValue(e, d) == Value(d, NextId(e.events), e.call)

\* fn(*args, **kwargs) where fn is a function or a coroutine function: its
\* body runs and returns.
CallFunction(e, d) == [Emit(e, "init", NewValue(e, d), TRUE) EXCEPT !.val = NewValue(e, d)]

\* fn(*args, **kwargs) where fn is a generator function: no code of it runs.
MakeGenerator(e, d) == [e EXCEPT !.val = NewValue(e, d)]

\* next(val), anext(val) on a new generator: its code runs up to the yield.
StartGenerator(e) == Emit(e, "init", e.val, TRUE)

AppendYield(e) == [e EXCEPT !.yields = Append(@, e.val)]

reversed(s) == [i \in 1..Len(s) |-> s[Len(s) + 1 - i]]

\* next(y) on a started generator: the code after its yield runs.
RECURSIVE CloseEach(_, _, _)
CloseEach(e, ys, i) ==
    IF i > Len(ys) THEN e ELSE CloseEach(Emit(e, "teardown", ys[i], TRUE), ys, i + 1)

CloseYieldsInListOrder(e, yields) == CloseEach(e, yields, 1)

_close_yields(e, yields) == CloseEach(e, reversed(yields), 1)

_aclose_yields(e, yields) == CloseEach(e, reversed(yields), 1)

RECURSIVE _resolve_dependencies(_, _, _, _)
RECURSIVE _init_dep(_, _)
RECURSIVE _ainit_dep(_, _)

\* cache[dep] = ...; return cache[dep]
Cached(e, d) == [e EXCEPT !.cache = (d :> e.val) @@ @]

Resolved(e, d, use_cache, val) == [Emit(e, "resolved", val, use_cache) EXCEPT !.val = val]

InitDep(e, d, mode) == IF mode = "async" THEN _ainit_dep(d, e) ELSE _init_dep(d, e)

ResolveNew(e, d, use_cache) == Resolved(IF use_cache THEN Cached(e, d) ELSE e, d, use_cache, e.val)

\* _resolve_dep and _aresolve_dep
_resolve_dep(d, use_cache, e, mode) ==
    IF use_cache /\ d \in DOMAIN e.cache
    THEN Resolved(e, d, use_cache, e.cache[d])
    ELSE ResolveNew(InitDep(e, d, mode), d, use_cache)

\* _resolve_dependencies and _aresolve_dependencies, from parameter i on
_resolve_dependencies(f, e, i, mode) ==
    IF i > Len(signature[f]) THEN e
    ELSE _resolve_dependencies(f,
             _resolve_dep(signature[f][i].dep, signature[f][i].use_cache, e, mode), i + 1, mode)

\* The wrapper of a dependency (made with _yields=yields): res = fn(...)
NestedCall(e, d) ==
    IF SyncKind[d] = "generator" THEN MakeGenerator(e, d) ELSE CallFunction(e, d)

StartIfGenerator(e, d) ==
    IF SyncKind[d] = "generator" THEN StartGenerator(AppendYield(e)) ELSE e

_init_dep(d, e) ==
    StartIfGenerator(NestedCall(_resolve_dependencies(d, e, 1, "sync"), d), d)

\* The async wrapper of a dependency: an async generator is started and then
\* appended, a generator is appended and then started.
AsyncNestedCall(e, d) ==
    IF AsyncKind[d] = "asyncgen" THEN AppendYield(StartGenerator(MakeGenerator(e, d)))
    ELSE IF AsyncKind[d] = "generator" THEN StartGenerator(AppendYield(MakeGenerator(e, d)))
    ELSE CallFunction(e, d)

_ainit_dep(d, e) == AsyncNestedCall(_resolve_dependencies(d, e, 1, "async"), d)

\* The frame of one call of a wrapped function: cache is the overrides dict
\* itself when the wrapper was made with overrides, a new dict otherwise;
\* yields is a new list.
Frame(w, k, cache, evs) ==
    [w |-> w, call |-> k, cache |-> cache, yields |-> <<>>, val |-> NoValue,
     events |-> Append(evs, Event("call", w, k, NoValue, TRUE))]

\* res = fn(*args, **kwargs): the body of the wrapped function runs
Body(e, raises) ==
    IF raises THEN Emit(Emit(e, "body", NoValue, TRUE), "raise", NoValue, TRUE)
    ELSE Emit(e, "body", NoValue, TRUE)

Raised(e) == e.events[Len(e.events)].ev = "raise"

SyncReturn(e) ==
    IF Raised(e) THEN e ELSE Emit(_close_yields(e, e.yields), "return", NoValue, TRUE)

AsyncReturn(e) ==
    IF Raised(e) THEN e ELSE Emit(_aclose_yields(e, e.yields), "return", NoValue, TRUE)

wrapper(e, raises) == SyncReturn(Body(_resolve_dependencies(e.w.fn, e, 1, "sync"), raises))

awrapper(e, raises) == AsyncReturn(Body(_resolve_dependencies(e.w.fn, e, 1, "async"), raises))

Calls(evs) == Cardinality({i \in DOMAIN evs : evs[i].ev = "call"})

InjectInit ==
    /\ TxIdle
    /\ SchemaIdle
    /\ call = NoCall
    /\ result = NoResult
    /\ posts_table = {}
    /\ session_new = <<>>
    /\ overrides = [w \in Wrappers |-> GivenOverrides(w)]
    /\ events = <<>>
    /\ suspended = <<>>
    /\ raised = "none"

\* What a call leaves behind: the events, the dict the wrapper holds, the
\* exception on its way to the caller and the generators left at their yield.
Leaves(w, e) ==
    /\ events' = e.events
    /\ overrides' = [overrides EXCEPT ![w] = IF w.given = "none" THEN @ ELSE e.cache]
    /\ raised' = IF Raised(e) THEN "ValueError" ELSE "none"
    /\ suspended' = IF Raised(e) THEN suspended \o e.yields ELSE suspended

\* One call of a wrapped function whose body returns or raises ValueError.
CallInjected(w, raises) ==
    /\ raised = "none"
    /\ Calls(events) < MaxInjectCalls
    /\ Leaves(w, IF w.mode = "async"
                 THEN awrapper(Frame(w, Calls(events) + 1, overrides[w], events), raises)
                 ELSE wrapper(Frame(w, Calls(events) + 1, overrides[w], events), raises))
    /\ UNCHANGED <<call, result, txVars, schemaVars, dataVars>>

\* The caller's except block runs.
HandleException ==
    /\ raised # "none"
    /\ events' = Append(events,
                  Event("handled", events[Len(events)].w, Calls(events), NoValue, TRUE))
    /\ raised' = "none"
    /\ UNCHANGED <<call, result, txVars, schemaVars, dataVars, overrides, suspended>>

RECURSIVE FinalizeEach(_, _, _)
FinalizeEach(evs, gens, i) ==
    IF i > Len(gens) THEN evs
    ELSE FinalizeEach(Append(evs, Event("finalize", evs[Len(evs)].w, gens[i].call, gens[i], TRUE)),
                      gens, i + 1)

\* The generators a raising call left at their yield are finalized when the
\* frame that holds the list is released: the traceback of the exception
\* keeps it until the caller is done with the exception.
Collect ==
    /\ raised = "none"
    /\ suspended # <<>>
    /\ events' = FinalizeEach(events, reversed(suspended), 1)
    /\ suspended' = <<>>
    /\ UNCHANGED <<call, result, txVars, schemaVars, dataVars, overrides, raised>>

InjectNext ==
    \/ \E w \in Wrappers, raises \in BOOLEAN : CallInjected(w, raises)
    \/ HandleException
    \/ Collect

InjectSpec == InjectInit /\ [][InjectNext]_vars


\* --- Properties of the injector -------------------------------------------
GeneratorBased(w, d) ==
    IF w.mode = "async" THEN AsyncKind[d] \in {"asyncgen", "generator"}
    ELSE SyncKind[d] = "generator"

EventsOf(k, ev) == {i \in DOMAIN events : events[i].call = k /\ events[i].ev = ev}

Ids(evs) == [i \in DOMAIN evs |-> evs[i].val.id]

\* The generators started in call k and the generators torn down by call k,
\* each in the order of the events.
Started(k) ==
    Ids(SelectSeq(events, LAMBDA x : x.call = k /\ x.ev = "init" /\ GeneratorBased(x.w, x.val.dep)))

TornDown(k) == Ids(SelectSeq(events, LAMBDA x : x.call = k /\ x.ev = "teardown"))

Inits(k, d) == Cardinality({i \in EventsOf(k, "init") : events[i].val.dep = d})

NoCacheRefs(k, d) ==
    Cardinality({i \in EventsOf(k, "resolved") : events[i].val.dep = d /\ ~events[i].use_cache})

DepNames == {"dep1", "dep2", "dep3"}

AtMostOncePerCall ==
    \A k \in 1..Calls(events) : \A d \in DepNames : Inits(k, d) <= 1 + NoCacheRefs(k, d)

NoCacheInitializesAgain ==
    \A p \in DOMAIN events :
        (events[p].ev = "resolved" /\ ~events[p].use_cache) =>
            /\ events[p - 1].ev = "init"
            /\ events[p - 1].val = events[p].val
            /\ \A q \in 1..(p - 1) : events[q].ev = "resolved" => events[q].val # events[p].val

InitializedInThisCall(p) ==
    events[p].val # Override(events[p].val.dep) => events[p].val.call = events[p].call

\* C22: within one call a dependency with the default use_cache is initialized
\* at most once, a use_cache=False reference initializes it again, and a later
\* call of the same wrapped function initializes its dependencies again rather
\* than reusing the values of the previous call, for injector and
\* async_injector.
C22_CachePerCall ==
    /\ AtMostOncePerCall
    /\ NoCacheInitializesAgain
    /\ \A p \in DOMAIN events : events[p].ev = "resolved" => InitializedInThisCall(p)

\* The same for the wrapped functions made without overrides, and the first
\* two parts for all of them.
C22_CachePerCallWithoutOverrides ==
    /\ AtMostOncePerCall
    /\ NoCacheInitializesAgain
    /\ \A p \in DOMAIN events :
           (events[p].ev = "resolved" /\ events[p].w.given = "none") => InitializedInThisCall(p)

\* C23: when a wrapped function returns normally, every generator-based
\* dependency started during the call has been torn down exactly once before
\* the wrapper returns, in the reverse of the order in which they were started.
C23_TeardownInReverse ==
    \A r \in DOMAIN events :
        events[r].ev = "return" =>
            /\ TornDown(events[r].call) = reversed(Started(events[r].call))
            /\ \A t \in EventsOf(events[r].call, "teardown") : t < r
            /\ \A i, j \in EventsOf(events[r].call, "teardown") :
                   events[i].val = events[j].val => i = j

\* A call of injector(fn) that started dep1 and dep2 has returned.
C23_TwoGeneratorsTornDown ==
    \E r \in DOMAIN events :
        /\ events[r].ev = "return"
        /\ events[r].w.mode = "sync"
        /\ Len(Started(events[r].call)) >= 2
        /\ Len(TornDown(events[r].call)) >= 2

TornDownBefore(k, h) ==
    \A s \in EventsOf(k, "init") :
        GeneratorBased(events[s].w, events[s].val.dep) =>
            \E t \in 1..(h - 1) :
                events[t].ev \in {"teardown", "finalize"} /\ events[t].val = events[s].val

ExceptionPropagates == (events # <<>> /\ events[Len(events)].ev = "raise") => raised = "ValueError"

\* C24: when a wrapped function raises, the exception reaches the caller
\* unchanged and the teardown code of every generator-based dependency started
\* during the call has run by the time the caller handles the exception.
C24_TeardownBeforeHandled ==
    /\ ExceptionPropagates
    /\ \A h \in DOMAIN events : events[h].ev = "handled" => TornDownBefore(events[h].call, h)

\* The exception does reach the caller, and a wrapped function that raised
\* has torn down nothing when the caller handles it.
C24_ExceptionPropagates ==
    /\ ExceptionPropagates
    /\ \A h \in DOMAIN events :
           events[h].ev = "handled" =>
               /\ events[h - 1].ev = "raise"
               /\ \A t \in 1..(h - 1) :
                      events[t].call = events[h].call =>
                          events[t].ev \notin {"teardown", "finalize"}

\* C28: calls of a wrapped function made with overrides are independent: a
\* call never adds to or changes the overrides mapping, and a dependency that
\* is not overridden is initialized again, and torn down again if it is a
\* generator, on every call.
C28_OverridesUntouched ==
    /\ \A w \in Wrappers : overrides[w] = GivenOverrides(w)
    /\ \A p \in DOMAIN events :
           (events[p].ev = "resolved" /\ events[p].w.given # "none") => InitializedInThisCall(p)
    /\ \A r \in DOMAIN events :
           (events[r].ev = "return" /\ events[r].w.given # "none") =>
               \A p \in EventsOf(events[r].call, "resolved") :
                   (/\ GeneratorBased(events[p].w, events[p].val.dep)
                    /\ events[p].val # Override(events[p].val.dep)) =>
                       \E t \in EventsOf(events[r].call, "teardown") :
                           p < t /\ t < r /\ events[t].val = events[p].val

\* What does hold: the overrides given are never replaced, a reference with the
\* default use_cache to an overridden dependency is served from them, and the
\* first call of the wrapped function initializes what is not overridden.
C28_OverriddenIsServed ==
    /\ \A w \in Wrappers : \A d \in DOMAIN GivenOverrides(w) :
           d \in DOMAIN overrides[w] /\ overrides[w][d] = GivenOverrides(w)[d]
    /\ \A p \in DOMAIN events :
           (/\ events[p].ev = "resolved"
            /\ events[p].use_cache
            /\ events[p].w.given = "dep1"
            /\ events[p].val.dep = "dep1") => events[p].val = Override("dep1")
    /\ \A p \in DOMAIN events :
           (/\ events[p].ev = "resolved"
            /\ \A q \in 1..(p - 1) :
                   events[q].w = events[p].w => events[q].call = events[p].call) =>
               InitializedInThisCall(p)

====
